---- MODULE Spec2Model ----
(***************************************************************************)
(* A model of the graph core of deep_architect (src/darch/core.py): ports, *)
(* hyperparameters with dependent-module notification, the module           *)
(* compile/forward contract and the naming scope; and of the evaluation      *)
(* logger of src/deep_architect/search_logging.py.                          *)
(*                                                                          *)
(* Python objects are identified by small integers; None is 0.  A method    *)
(* that ends by a failed assert (or another exception) is a step whose      *)
(* record in "last" has ok = FALSE and whose state is whatever the method   *)
(* had written before the exception.                                        *)
(***************************************************************************)
EXTENDS Integers, Sequences, FiniteSets, TLC

\* ------------------------------------------------------------------ bounds
NumInputs == 3
NumOutputs == 2
NumHyps == 2
NumModules == 2
MaxRegs == 2
MaxCalls == 3
NumElems == 3

Inputs == 1..NumInputs
Outputs == 1..NumOutputs
Hyps == 1..NumHyps
ModuleIds == 1..NumModules
Elems == 1..NumElems
None == 0

VARIABLES
    from_output,    \* Input.from_output : input -> output or None
    to_inputs,      \* Output.to_inputs  : output -> list of inputs
    set_done,       \* Hyperparameter.set_done
    val,            \* Hyperparameter.val (None until assigned)
    modules,        \* Hyperparameter.modules : the OrderedSet, as a list
    hyperps,        \* Module.hyperps : the OrderedDict, as a list of (name, h)
    trace,          \* what the last set_val did, in order
    is_compiled,    \* Module._is_compiled
    fn,             \* KerasModule._fn (None until _compile has made it)
    in_val,         \* the val of a module's input (None until assigned)
    out_val,        \* the val of a module's output (None until assigned)
    fwd_log,        \* per module, the _compile and _forward steps run so far
    calls,          \* per module, the forward() calls that returned
    name_to_elem,   \* Scope.name_to_elem
    elem_to_name,   \* Scope.elem_to_name
    scope_last,     \* the last call on the scope, its result and outcome
    inputs,         \* Module.inputs : the OrderedDict, as a list of (name, port)
    outputs,        \* Module.outputs : the OrderedDict, as a list of (name, port)
    disk,           \* the search folder, its evaluation folders and their files
    loggers,        \* the evaluation ids an EvaluationLogger was constructed for
    last            \* the last call made and whether it returned normally

portVars == <<from_output, to_inputs>>
hypVars == <<set_done, val, modules, hyperps, trace>>
fwdVars == <<is_compiled, fn, in_val, out_val, fwd_log, calls>>
scopeVars == <<name_to_elem, elem_to_name, scope_last>>
modVars == <<inputs, outputs>>
logVars == <<disk, loggers>>
vars == <<from_output, to_inputs, set_done, val, modules, hyperps, trace,
          is_compiled, fn, in_val, out_val, fwd_log, calls,
          name_to_elem, elem_to_name, scope_last, inputs, outputs,
          disk, loggers, last>>

Call(op, a, b, ok) == [op |-> op, a |-> a, b |-> b, ok |-> ok]

\* ------------------------------------------------------------------ lists
\* list.remove(x): drops the first occurrence of x (the caller checks membership)
RECURSIVE Remove(_, _)
Remove(s, x) ==
    IF s = <<>> THEN <<>>
    ELSE IF Head(s) = x THEN Tail(s)
    ELSE <<Head(s)>> \o Remove(Tail(s), x)

Contains(s, x) == \E k \in 1..Len(s) : s[k] = x

Count(s, x) == Cardinality({k \in 1..Len(s) : s[k] = x})

\* ------------------------------------------------------------------ ports
\* The port state a method works on; ok turns FALSE when an exception leaves it.
PortState == [from_output |-> from_output, to_inputs |-> to_inputs, ok |-> TRUE]

Failed(s) == [s EXCEPT !.ok = FALSE]

\* Input.connect(self = i, from_output = o)
Input_connectPrepends(s, i, o) ==
    IF s.from_output[i] # None THEN Failed(s)
    ELSE [s EXCEPT !.from_output[i] = o,
                   !.to_inputs[o] = <<i>> \o s.to_inputs[o]]

Input_connectOverwrites(s, i, o) ==
    [s EXCEPT !.from_output[i] = o,
              !.to_inputs[o] = Append(s.to_inputs[o], i)]

Input_connect(s, i, o) ==
    IF s.from_output[i] # None THEN Failed(s)
    ELSE [s EXCEPT !.from_output[i] = o,
                   !.to_inputs[o] = Append(s.to_inputs[o], i)]

\* Input.disconnect(self = i)
Input_disconnectKeepsBackRef(s, i) ==
    IF s.from_output[i] = None THEN Failed(s)
    ELSE IF ~Contains(s.to_inputs[s.from_output[i]], i) THEN Failed(s)
    ELSE [s EXCEPT !.to_inputs[s.from_output[i]] = Remove(s.to_inputs[s.from_output[i]], i)]

Input_disconnectClearsList(s, i) ==
    IF s.from_output[i] = None THEN Failed(s)
    ELSE IF ~Contains(s.to_inputs[s.from_output[i]], i) THEN Failed(s)
    ELSE [s EXCEPT !.to_inputs[s.from_output[i]] = <<>>,
                   !.from_output[i] = None]

Input_disconnect(s, i) ==
    IF s.from_output[i] = None THEN Failed(s)
    ELSE IF ~Contains(s.to_inputs[s.from_output[i]], i) THEN Failed(s)
    ELSE [s EXCEPT !.to_inputs[s.from_output[i]] = Remove(s.to_inputs[s.from_output[i]], i),
                   !.from_output[i] = None]

\* Output.connect(self = o, to_input = i)
Output_connect(s, o, i) == Input_connect(s, i, o)

\* Input.reroute_connected_output(self = i, to_input = j)
Input_reroute_connected_outputAtomic(s, i, j) ==
    LET old_ox == s.from_output[i]
    IN IF old_ox = None \/ (j # i /\ s.from_output[j] # None) THEN Failed(s)
       ELSE Output_connect(Input_disconnect(s, i), old_ox, j)

Input_reroute_connected_outputInPlace(s, i, j) ==
    LET old_ox == s.from_output[i]
    IN IF old_ox = None \/ ~Contains(s.to_inputs[old_ox], i) THEN Failed(s)
       ELSE IF j # i /\ s.from_output[j] # None
            THEN Failed(Input_disconnect(s, i))
       ELSE [s EXCEPT !.from_output = [[@ EXCEPT ![i] = None] EXCEPT ![j] = old_ox],
                      !.to_inputs[old_ox] = [k \in 1..Len(@) |-> IF @[k] = i THEN j ELSE @[k]]]

Input_reroute_connected_output(s, i, j) ==
    LET old_ox == s.from_output[i]
        s1 == Input_disconnect(s, i)
    IN IF ~s1.ok THEN s1 ELSE Output_connect(s1, old_ox, j)

\* Output.disconnect_all(self = o): "for ix in self.to_inputs" walks the list
\* object by position while the body removes elements from that same list.
RECURSIVE disconnect_all_loop(_, _, _)
disconnect_all_loop(s, o, k) ==
    IF ~s.ok \/ k > Len(s.to_inputs[o]) THEN s
    ELSE disconnect_all_loop(Input_disconnect(s, s.to_inputs[o][k]), o, k + 1)

Output_disconnect_all(s, o) == disconnect_all_loop(s, o, 1)

\* Output.reroute_all_connected_inputs(self = o, from_output = o2): the same
\* walk by position over the list that the body shrinks (and, when o2 = o, grows).
RECURSIVE reroute_all_loop(_, _, _, _)
reroute_all_loop(s, o, o2, k) ==
    IF ~s.ok \/ k > Len(s.to_inputs[o]) THEN s
    ELSE LET ix == s.to_inputs[o][k]
             s1 == Input_disconnect(s, ix)
             s2 == IF s1.ok THEN Input_connect(s1, ix, o2) ELSE s1
         IN reroute_all_loop(s2, o, o2, k + 1)

Output_reroute_all_connected_inputs(s, o, o2) == reroute_all_loop(s, o, o2, 1)

\* The step of a port method: the state it leaves and the record of the call.
PortStep(s, op, a, b) ==
    /\ from_output' = s.from_output
    /\ to_inputs' = s.to_inputs
    /\ last' = Call(op, a, b, s.ok)
    /\ UNCHANGED <<logVars, hypVars, fwdVars, scopeVars, modVars>>

connect(o, i) == PortStep(Output_connect(PortState, o, i), "connect", o, i)

disconnect(i) == PortStep(Input_disconnect(PortState, i), "disconnect", i, None)

reroute_connected_output(i, j) ==
    PortStep(Input_reroute_connected_output(PortState, i, j), "reroute_connected_output", i, j)

disconnect_all(o) == PortStep(Output_disconnect_all(PortState, o), "disconnect_all", o, None)

reroute_all_connected_inputs(o, o2) ==
    PortStep(Output_reroute_all_connected_inputs(PortState, o, o2),
             "reroute_all_connected_inputs", o, o2)

\* ------------------------------------------------------- hyperparameters
\* Values handed to set_val; the variant's domain is {1, 2}, 3 is outside it.
ArgVals == {1, 2, 3}
Domain == {1, 2}
\* the value an _update hook passes when it sets another hyperparameter
HookVal == 1
\* local role names a module registers its hyperparameters under
RoleNames == {"a", "b"}

HypState ==
    [set_done |-> set_done, val |-> val, modules |-> modules, hyperps |-> hyperps,
     trace |-> <<>>, ok |-> TRUE]

\* An entry of the trace: "set" (value stored), "update" (m._update() invoked by
\* h's loop, with what is_set() / val show at that moment), "updated" (it
\* returned), "return" (set_val returned).
Ev(e, h, m, s) == [e |-> e, h |-> h, m |-> m, is_set |-> s.set_done[h], val |-> s.val[h]]

Log(s, e, h, m) == [s EXCEPT !.trace = Append(@, Ev(e, h, m, s))]

\* OrderedSet.add
OrderedSet_addNoCheck(d, x) == Append(d, x)

OrderedSet_add(d, x) == IF Contains(d, x) THEN d ELSE Append(d, x)

\* Hyperparameter._register_module(self = h, module = m)
Hyperparameter_register_moduleFirst(s, h, m) ==
    [s EXCEPT !.modules[h] = IF Contains(@, m) THEN @ ELSE <<m>> \o @]

Hyperparameter_register_moduleUnlessSet(s, h, m) ==
    IF s.set_done[h] THEN s ELSE [s EXCEPT !.modules[h] = OrderedSet_add(@, m)]

Hyperparameter_register_module(s, h, m) ==
    [s EXCEPT !.modules[h] = OrderedSet_add(@, m)]

HasRole(d, name) == \E k \in 1..Len(d) : d[k].name = name

Module_register_hyperparameterReplaces(s, m, h, name) ==
    Hyperparameter_register_module(
        [s EXCEPT !.hyperps[m] =
            IF HasRole(@, name)
            THEN [k \in 1..Len(@) |-> IF @[k].name = name THEN [name |-> name, h |-> h] ELSE @[k]]
            ELSE Append(@, [name |-> name, h |-> h])], h, m)

\* Module._register_hyperparameter(self = m, h, name)
Module_register_hyperparameter(s, m, h, name) ==
    IF HasRole(s.hyperps[m], name) THEN Failed(s)
    ELSE Hyperparameter_register_module(
            [s EXCEPT !.hyperps[m] = Append(@, [name |-> name, h |-> h])], h, m)

\* Hyperparameter._check_val of the enumerated-domain variant
Hyperparameter_check_val(h, v) == v \in Domain

\* Which _update a module supplies: odd modules are of a variant whose hook sets
\* another hyperparameter (HookTarget), even ones are KerasModules (pass).
HookOf(m) == IF m % 2 = 1 THEN "set" ELSE "pass"

HookTarget(m) == (m % NumHyps) + 1

\* Hyperparameter.set_val(self = h, val = v) with the modules' _update hooks it runs
RECURSIVE Hyperparameter_set_val(_, _, _)
RECURSIVE notify_loop(_, _, _)
RECURSIVE Module_update(_, _)

\* KerasModule._update
KerasModule_update(s, m) == s

\* a variant whose _update sets another hyperparameter once, when it still can
Setter_update(s, m) ==
    IF s.set_done[HookTarget(m)] THEN s
    ELSE Hyperparameter_set_val(s, HookTarget(m), HookVal)

\* Module._update is abstract: it is what the module's variant supplies
Module_update(s, m) ==
    IF HookOf(m) = "set" THEN Setter_update(s, m) ELSE KerasModule_update(s, m)

\* "for m in self.modules: m._update()"
notify_loop(s, h, k) ==
    IF ~s.ok \/ k > Len(s.modules[h]) THEN s
    ELSE LET m == s.modules[h][k]
             s1 == Module_update(Log(s, "update", h, m), m)
         IN notify_loop(IF s1.ok THEN Log(s1, "updated", h, m) ELSE s1, h, k + 1)

Hyperparameter_commitValueOnly(s, h, v) ==
    Log([s EXCEPT !.val[h] = v], "set", h, None)

\* "self.set_done = True; self.val = val"
Hyperparameter_commit(s, h, v) ==
    Log([s EXCEPT !.set_done[h] = TRUE, !.val[h] = v], "set", h, None)

Hyperparameter_set_valUnguarded(s, h, v) ==
    IF ~Hyperparameter_check_val(h, v) THEN Failed(s)
    ELSE LET s1 == notify_loop(Hyperparameter_commit(s, h, v), h, 1)
         IN IF s1.ok THEN Log(s1, "return", h, None) ELSE s1

Hyperparameter_set_valChecksLate(s, h, v) ==
    IF s.set_done[h] THEN Failed(s)
    ELSE LET s1 == Hyperparameter_commit(s, h, v)
         IN IF ~Hyperparameter_check_val(h, v) THEN Failed(s1)
            ELSE LET s2 == notify_loop(s1, h, 1)
                 IN IF s2.ok THEN Log(s2, "return", h, None) ELSE s2

Hyperparameter_set_val(s, h, v) ==
    IF s.set_done[h] THEN Failed(s)
    ELSE IF ~Hyperparameter_check_val(h, v) THEN Failed(s)
    ELSE LET s1 == notify_loop(Hyperparameter_commit(s, h, v), h, 1)
         IN IF s1.ok THEN Log(s1, "return", h, None) ELSE s1

\* the state a method returns with, and the value it returns
Return(s, r) == [f \in DOMAIN s \cup {"ret"} |-> IF f = "ret" THEN r ELSE s[f]]

\* Hyperparameter.is_set(self = h); True is 1 and False is 0, as in Python
Hyperparameter_is_setMarks(s, h) ==
    Return([s EXCEPT !.set_done[h] = TRUE], IF s.set_done[h] THEN 1 ELSE 0)

Hyperparameter_is_set(s, h) == Return(s, IF s.set_done[h] THEN 1 ELSE 0)

\* Hyperparameter.get_val(self = h): the value returned, or failure when not set
Hyperparameter_get_val(s, h) ==
    IF ~s.set_done[h] THEN Return(Failed(s), None) ELSE Return(s, s.val[h])

HypStep(s, op, a, b) ==
    /\ set_done' = s.set_done
    /\ val' = s.val
    /\ modules' = s.modules
    /\ hyperps' = s.hyperps
    /\ trace' = s.trace
    /\ last' = Call(op, a, b, s.ok)
    /\ UNCHANGED <<logVars, portVars, fwdVars, scopeVars, modVars>>

\* the number of (module, role) registrations made so far
RECURSIVE SumLen(_, _)
SumLen(f, S) ==
    IF S = {} THEN 0
    ELSE LET x == CHOOSE y \in S : TRUE IN Len(f[x]) + SumLen(f, S \ {x})

NumRegs == SumLen(hyperps, ModuleIds)

set_val(h, v) == HypStep(Hyperparameter_set_val(HypState, h, v), "set_val", h, v)

register_hyperparameter(m, h, name) ==
    /\ NumRegs < MaxRegs
    /\ HypStep(Module_register_hyperparameter(HypState, m, h, name),
               "register_hyperparameter", None, None)

\* the step of a method that returns a value: the call record keeps it in b
get_val(h) ==
    LET s == Hyperparameter_get_val(HypState, h) IN HypStep(s, "get_val", h, s.ret)

is_set(h) ==
    LET s == Hyperparameter_is_set(HypState, h) IN HypStep(s, "is_set", h, s.ret)

\* ------------------------------------------------------- module forward
\* values a driver assigns to inputs
InVals == {1, 2}
\* the function object compile_fn returns
CompiledFn == 1

FwdState ==
    [is_compiled |-> is_compiled, fn |-> fn, in_val |-> in_val, out_val |-> out_val,
     fwd_log |-> fwd_log, calls |-> calls, ok |-> TRUE]

\* KerasModule._compile: reads the input values and the hyperparameter values
\* (an input or a hyperparameter without val raises) and keeps the function
\* compile_fn returns
KerasModule_compile(s, m) ==
    IF s.in_val[m] = None THEN Failed(s)
    ELSE IF \E k \in 1..Len(hyperps[m]) : ~set_done[hyperps[m][k].h] THEN Failed(s)
    ELSE [s EXCEPT !.fn[m] = CompiledFn, !.fwd_log[m] = Append(@, "compile")]

\* KerasModule._forward: applies self._fn (here the identity) to the input
\* values and writes the output values
KerasModule_forward(s, m) ==
    IF s.in_val[m] = None \/ s.fn[m] = None THEN Failed(s)
    ELSE [s EXCEPT !.out_val[m] = s.in_val[m], !.fwd_log[m] = Append(@, "forward")]

\* Module.forward(self = m)
Module_forwardNeverMarks(s, m) ==
    LET s1 == IF ~s.is_compiled[m] THEN KerasModule_compile(s, m) ELSE s
        s2 == IF s1.ok THEN KerasModule_forward(s1, m) ELSE s1
    IN IF s2.ok THEN [s2 EXCEPT !.calls[m] = @ + 1] ELSE s2

Module_forward(s, m) ==
    LET s1 == IF ~s.is_compiled[m]
              THEN LET c == KerasModule_compile(s, m)
                   IN IF c.ok THEN [c EXCEPT !.is_compiled[m] = TRUE] ELSE c
              ELSE s
        s2 == IF s1.ok THEN KerasModule_forward(s1, m) ELSE s1
    IN IF s2.ok THEN [s2 EXCEPT !.calls[m] = @ + 1] ELSE s2

FwdStep(s, op, a, b) ==
    /\ is_compiled' = s.is_compiled
    /\ fn' = s.fn
    /\ in_val' = s.in_val
    /\ out_val' = s.out_val
    /\ fwd_log' = s.fwd_log
    /\ calls' = s.calls
    /\ last' = Call(op, a, b, s.ok)
    /\ UNCHANGED <<logVars, portVars, hypVars, scopeVars, modVars>>

\* "ix.val = val", as the forward() driver does for the inputs it is given
set_input(m, v) == FwdStep([FwdState EXCEPT !.in_val[m] = v], "set_input", m, v)

module_forward(m) ==
    /\ calls[m] < MaxCalls
    /\ FwdStep(Module_forward(FwdState, m), "forward", m, None)

\* ---------------------------------------------------------------- scope
\* names handed to Scope.register directly, and prefixes handed to
\* Scope.get_unused_name
DirectNames == {"a0", "a1", "b0"}
Prefixes == {"a", "b"}

Digit(d) ==
    CASE d = 0 -> "0" [] d = 1 -> "1" [] d = 2 -> "2" [] d = 3 -> "3" [] d = 4 -> "4"
      [] d = 5 -> "5" [] d = 6 -> "6" [] d = 7 -> "7" [] d = 8 -> "8" [] d = 9 -> "9"

\* str(i) for i >= 0
RECURSIVE Str(_)
Str(i) == IF i < 10 THEN Digit(i) ELSE Str(i \div 10) \o Digit(i % 10)

ScopeState == [name_to_elem |-> name_to_elem, elem_to_name |-> elem_to_name, ok |-> TRUE]

\* d[k] = v on a dict
Put(d, k, v) == [x \in DOMAIN d \cup {k} |-> IF x = k THEN v ELSE d[x]]

\* Scope.register(name, elem)
Scope_registerOverwrites(s, name, elem) ==
    [s EXCEPT !.name_to_elem = Put(@, name, elem), !.elem_to_name = Put(@, elem, name)]

Scope_register(s, name, elem) ==
    IF name \in DOMAIN s.name_to_elem THEN Failed(s)
    ELSE [s EXCEPT !.name_to_elem = Put(@, name, elem), !.elem_to_name = Put(@, elem, name)]

\* the loop of Scope.get_unused_name, from i on
RECURSIVE unused_name_from(_, _, _)
unused_name_from(s, prefix, i) ==
    LET name == prefix \o Str(i)
    IN IF name \notin DOMAIN s.name_to_elem THEN name
       ELSE unused_name_from(s, prefix, i + 1)

\* Scope.get_unused_name(prefix)
Scope_get_unused_nameFromOne(s, prefix) == unused_name_from(s, prefix, 1)

Scope_get_unused_name(s, prefix) == unused_name_from(s, prefix, 0)

ScopeCall(op, name, elem, ret, ok) ==
    [op |-> op, name |-> name, elem |-> elem, ret |-> ret, ok |-> ok]

ScopeStep(s, call) ==
    /\ name_to_elem' = s.name_to_elem
    /\ elem_to_name' = s.elem_to_name
    /\ scope_last' = call
    /\ UNCHANGED <<logVars, portVars, hypVars, fwdVars, modVars, last>>

register(name, elem) ==
    LET s == Scope_register(ScopeState, name, elem)
    IN ScopeStep(s, ScopeCall("register", name, elem, "", s.ok))

get_unused_name(prefix) ==
    ScopeStep(ScopeState,
              ScopeCall("get_unused_name", prefix, None,
                        Scope_get_unused_name(ScopeState, prefix), TRUE))

\* Hyperparameter.__init__ / Module.__init__ of a new object: a name from
\* get_unused_name, then Addressable.__init__ registers the object under it
new_addressable(prefix, elem) ==
    /\ elem \notin DOMAIN elem_to_name
    /\ LET name == Scope_get_unused_name(ScopeState, prefix)
           s == Scope_register(ScopeState, name, elem)
       IN ScopeStep(s, ScopeCall("new", prefix, elem, name, s.ok))

\* ---------------------------------------------------- module registration
\* local names handed to Module._register for inputs and for outputs
PortNames == {"x", "y"}
\* the objects kept in the scope: modules, hyperparameters, inputs and outputs
Obj(kind, id) == [kind |-> kind, id |-> id]

RegState ==
    [inputs |-> inputs, outputs |-> outputs,
     from_output |-> from_output, to_inputs |-> to_inputs,
     set_done |-> set_done, val |-> val, modules |-> modules, hyperps |-> hyperps,
     trace |-> <<>>, name_to_elem |-> name_to_elem, elem_to_name |-> elem_to_name,
     ok |-> TRUE]

\* Scope.get_name(elem)
Scope_get_name(s, elem) == s.elem_to_name[elem]

\* Addressable.__init__(self = elem, scope, name)
Addressable_init(s, name, elem) == Scope_register(s, name, elem)

\* Module.__init__ and Hyperparameter.__init__ with name None: the name is the
\* first unused one that starts with "M." or "H." and the class name
Module_init(s, m) ==
    Addressable_init(s, Scope_get_unused_name(s, "M.Module-"), Obj("Module", m))

Hyperparameter_init(s, h) ==
    Addressable_init(s, Scope_get_unused_name(s, "H.Hyperparameter-"), Obj("Hyperparameter", h))

\* the objects 1..n of a class constructed one after the other
RECURSIVE ConstructAll(_, _, _)
ConstructAll(s, kind, n) ==
    IF n = 0 THEN s
    ELSE IF kind = "Module" THEN Module_init(ConstructAll(s, kind, n - 1), n)
    ELSE Hyperparameter_init(ConstructAll(s, kind, n - 1), n)

\* the identity of an object made now: one that no input (output) has
NewInput(s) == Cardinality(DOMAIN s.from_output) + 1

NewOutput(s) == Cardinality(DOMAIN s.to_inputs) + 1

\* Input.__init__(self = NewInput(s), module = m, scope, name)
Input_init(s, m, name) ==
    LET s1 == Addressable_init(s, Scope_get_name(s, Obj("Module", m)) \o ".I." \o name,
                               Obj("Input", NewInput(s)))
    IN IF ~s1.ok THEN s1 ELSE [s1 EXCEPT !.from_output = Put(@, NewInput(s), None)]

\* Output.__init__(self = NewOutput(s), module = m, scope, name)
Output_init(s, m, name) ==
    LET s1 == Addressable_init(s, Scope_get_name(s, Obj("Module", m)) \o ".O." \o name,
                               Obj("Output", NewOutput(s)))
    IN IF ~s1.ok THEN s1 ELSE [s1 EXCEPT !.to_inputs = Put(@, NewOutput(s), <<>>)]

\* Module._register_input(self = m, name)
Module_register_input(s, m, name) ==
    IF HasRole(s.inputs[m], name) THEN Failed(s)
    ELSE LET s1 == Input_init(s, m, name)
         IN IF ~s1.ok THEN s1
            ELSE [s1 EXCEPT !.inputs[m] = Append(@, [name |-> name, port |-> NewInput(s)])]

\* Module._register_output(self = m, name)
Module_register_output(s, m, name) ==
    IF HasRole(s.outputs[m], name) THEN Failed(s)
    ELSE LET s1 == Output_init(s, m, name)
         IN IF ~s1.ok THEN s1
            ELSE [s1 EXCEPT !.outputs[m] = Append(@, [name |-> name, port |-> NewOutput(s)])]

\* "for name in input_names: self._register_input(name)"
RECURSIVE register_inputs_loop(_, _, _, _)
register_inputs_loop(s, m, input_names, k) ==
    IF ~s.ok \/ k > Len(input_names) THEN s
    ELSE register_inputs_loop(Module_register_input(s, m, input_names[k]), m, input_names, k + 1)

\* "for name in output_names: self._register_output(name)"
RECURSIVE register_outputs_loop(_, _, _, _)
register_outputs_loop(s, m, output_names, k) ==
    IF ~s.ok \/ k > Len(output_names) THEN s
    ELSE register_outputs_loop(Module_register_output(s, m, output_names[k]), m, output_names, k + 1)

\* "for name, h in iteritems(name_to_hyperp): self._register_hyperparameter(h, name)"
RECURSIVE register_hyperps_loop(_, _, _, _)
register_hyperps_loop(s, m, name_to_hyperp, k) ==
    IF ~s.ok \/ k > Len(name_to_hyperp) THEN s
    ELSE register_hyperps_loop(Module_register_hyperparameter(s, m, name_to_hyperp[k].h,
                                                              name_to_hyperp[k].name),
                               m, name_to_hyperp, k + 1)

\* Module._register(self = m, input_names, output_names, name_to_hyperp); the
\* dict is the list of its items
Module__register(s, m, input_names, output_names, name_to_hyperp) ==
    register_hyperps_loop(
        register_outputs_loop(register_inputs_loop(s, m, input_names, 1), m, output_names, 1),
        m, name_to_hyperp, 1)

\* the lists of local names a caller hands over (a name may come twice)
NameLists == UNION {[1..n -> PortNames] : n \in 0..MaxRegs}

\* the dicts of hyperparameters by role name: the keys of a dict are distinct
HyperpDicts ==
    {d \in UNION {[1..n -> [name : RoleNames, h : Hyps]] : n \in 0..Cardinality(RoleNames)} :
        \A j \in 1..Len(d), k \in 1..Len(d) : d[j].name = d[k].name => j = k}

\* the number of names a _register call declares
NumNames(a) == Len(a.input_names) + Len(a.output_names) + Len(a.name_to_hyperp)

\* the arguments of one _register call
RegisterArgs ==
    {a \in [input_names : NameLists, output_names : NameLists, name_to_hyperp : HyperpDicts] :
        NumNames(a) \in 1..MaxRegs}

\* the ports and roles the modules have registered so far
NumDeclared == SumLen(inputs, ModuleIds) + SumLen(outputs, ModuleIds) + NumRegs

RegStep(s, call) ==
    /\ inputs' = s.inputs
    /\ outputs' = s.outputs
    /\ from_output' = s.from_output
    /\ to_inputs' = s.to_inputs
    /\ set_done' = s.set_done
    /\ val' = s.val
    /\ modules' = s.modules
    /\ hyperps' = s.hyperps
    /\ name_to_elem' = s.name_to_elem
    /\ elem_to_name' = s.elem_to_name
    /\ last' = call
    /\ UNCHANGED <<logVars, trace, fwdVars, scope_last>>

\* the construction code is running: it makes no further call once one has
\* raised
Constructing == last.ok /\ NumDeclared < MaxRegs

\* a module variant's call of self._register; the modules declare MaxRegs names
\* in all
register_call(m, a) ==
    /\ Constructing
    /\ NumDeclared + NumNames(a) <= MaxRegs
    /\ \E s \in {Module__register(RegState, m, a.input_names, a.output_names, a.name_to_hyperp)} :
            RegStep(s, Call("_register", [m |-> m, args |-> a], None, s.ok))

\* ---------------------------------------------------------------- graphs
\* The graph functions work on modules that own their ports.  NumNodes modules
\* are constructed; Module._register gives module m the output m and the input
\* m, and every third module is of a variant with either one or two inputs.
\* The inputs that exist are the domain of from_output.
NumNodes == 3
\* the longest list of ports handed to a graph function
MaxPorts == 2
\* the connections a builder makes
MaxEdges == 3
\* the connections made in a search space whose hyperparameters are queried
MaxSpaceEdges == 2

Nodes == 1..NumNodes
GraphOutputs == 1..NumNodes
GraphInputs == 1..(NumNodes + (NumNodes \div 3))

\* Module.inputs and Module.outputs, in registration order
Module_inputs(g, m) ==
    IF m % 3 = 0 /\ NumNodes + (m \div 3) \in DOMAIN g.from_output
    THEN <<m, NumNodes + (m \div 3)>>
    ELSE <<m>>

Module_outputs(m) == <<m>>

\* Input.get_module and Output.get_module
Input_get_module == [i \in GraphInputs |-> IF i <= NumNodes THEN i ELSE 3 * (i - NumNodes)]

Output_get_module == [o \in GraphOutputs |-> o]

\* the inputs every module has, and those with the second inputs
InputLayouts == {1..NumNodes, GraphInputs}

\* the lists of distinct ports a caller hands over
PortLists(S) ==
    {l \in UNION {[1..n -> S] : n \in 0..MaxPorts} :
        \A j \in 1..Len(l), k \in 1..Len(l) : l[j] = l[k] => j = k}

InputLists == PortLists(GraphInputs)

OutputLists == PortLists(GraphOutputs)

\* the value a caller feeds to a seed input
SeedVal(ix) == IF ix % 2 = 1 THEN 5 ELSE 2

GraphState ==
    [from_output |-> from_output, to_inputs |-> to_inputs,
     set_done |-> set_done, val |-> val, modules |-> modules, hyperps |-> hyperps,
     trace |-> <<>>, is_compiled |-> is_compiled, in_val |-> in_val, out_val |-> out_val,
     ok |-> TRUE]

\* extract_unique_modules(input_or_output_lst); get_module is the owner map of
\* the ports in the list
RECURSIVE extract_unique_modules_loop(_, _, _, _)
extract_unique_modules_loop(get_module, lst, k, ms) ==
    IF k > Len(lst) THEN ms
    ELSE extract_unique_modules_loop(get_module, lst, k + 1,
                                     OrderedSet_add(ms, get_module[lst[k]]))

extract_unique_modules(get_module, lst) ==
    extract_unique_modules_loop(get_module, lst, 1, <<>>)

\* "ms.extend([ix.get_module() for ix in ix_lst])"
ModulesOf(ix_lst) == [k \in 1..Len(ix_lst) |-> Input_get_module[ix_lst[k]]]

Elements(lst) == {lst[k] : k \in 1..Len(lst)}

RECURSIVE eval_seq_outputsFirstOnly(_, _, _, _)
eval_seq_outputsFirstOnly(g, e, m, j) ==
    IF j > Len(Module_outputs(m)) THEN e
    ELSE LET ix_lst == g.to_inputs[Module_outputs(m)[j]]
         IN eval_seq_outputsFirstOnly(g, [e EXCEPT !.input_memo = @ \cup Elements(ix_lst),
                                                   !.ms = IF ix_lst = <<>> THEN @
                                                         ELSE Append(@, Input_get_module[ix_lst[1]])],
                                      m, j + 1)

\* determine_module_eval_seq: the body of "for ox in itervalues(m.outputs)",
\* from the j-th output of m on; e holds module_seq, module_memo, input_memo, ms
RECURSIVE eval_seq_outputs(_, _, _, _)
eval_seq_outputs(g, e, m, j) ==
    IF j > Len(Module_outputs(m)) THEN e
    ELSE LET ix_lst == g.to_inputs[Module_outputs(m)[j]]
         IN eval_seq_outputs(g, [e EXCEPT !.input_memo = @ \cup Elements(ix_lst),
                                          !.ms = @ \o ModulesOf(ix_lst)], m, j + 1)

RECURSIVE eval_seq_loopNoCheck(_, _, _)
eval_seq_loopNoCheck(g, e, k) ==
    IF k > Len(e.ms) THEN e
    ELSE LET m == e.ms[k]
         IN IF m \notin e.module_memo
            THEN eval_seq_loopNoCheck(g, eval_seq_outputs(g,
                                   [e EXCEPT !.module_seq = Append(@, m),
                                             !.module_memo = @ \cup {m}], m, 1), k + 1)
            ELSE eval_seq_loopNoCheck(g, e, k + 1)

RECURSIVE eval_seq_loopMemoOnlyFanOut(_, _, _)
eval_seq_loopMemoOnlyFanOut(g, e, k) ==
    IF k > Len(e.ms) THEN e
    ELSE LET m == e.ms[k]
         IN IF m \notin e.module_memo
               /\ \A j \in 1..Len(Module_inputs(g, m)) : Module_inputs(g, m)[j] \in e.input_memo
            THEN eval_seq_loopMemoOnlyFanOut(g, eval_seq_outputs(g,
                    [e EXCEPT !.module_seq = Append(@, m),
                              !.module_memo =
                                  IF \E j \in 1..Len(Module_outputs(m)) :
                                        g.to_inputs[Module_outputs(m)[j]] # <<>>
                                  THEN @ \cup {m} ELSE @], m, 1), k + 1)
            ELSE eval_seq_loopMemoOnlyFanOut(g, e, k + 1)

\* "for m in ms": the walk by position over the list that the body extends
RECURSIVE eval_seq_loop(_, _, _)
eval_seq_loop(g, e, k) ==
    IF k > Len(e.ms) THEN e
    ELSE LET m == e.ms[k]
         IN IF m \notin e.module_memo
               /\ \A j \in 1..Len(Module_inputs(g, m)) : Module_inputs(g, m)[j] \in e.input_memo
            THEN eval_seq_loop(g, eval_seq_outputs(g,
                                   [e EXCEPT !.module_seq = Append(@, m),
                                             !.module_memo = @ \cup {m}], m, 1), k + 1)
            ELSE eval_seq_loop(g, e, k + 1)

\* the locals of determine_module_eval_seq(input_lst) when its loop has ended
eval_seq_locals(g, input_lst) ==
    eval_seq_loop(g, [module_seq |-> <<>>, module_memo |-> {},
                      input_memo |-> Elements(input_lst),
                      ms |-> extract_unique_modules(Input_get_module, input_lst)], 1)

\* determine_module_eval_seq(input_lst)
determine_module_eval_seq(g, input_lst) == eval_seq_locals(g, input_lst).module_seq

\* Module._get_input_values: reading ix.val of an input that was never
\* assigned raises
HasInputValues(g, m) ==
    \A j \in 1..Len(Module_inputs(g, m)) : g.in_val[Module_inputs(g, m)[j]] # None

\* the function a module's variant computes: the sum of its input values (the
\* identity for a module with one input)
RECURSIVE SumVals(_, _, _)
SumVals(g, ixs, j) ==
    IF j > Len(ixs) THEN 0 ELSE g.in_val[ixs[j]] + SumVals(g, ixs, j + 1)

\* Module._set_output_values
RECURSIVE Module_set_output_values(_, _, _, _)
Module_set_output_values(g, m, v, j) ==
    IF j > Len(Module_outputs(m)) THEN g
    ELSE Module_set_output_values([g EXCEPT !.out_val[Module_outputs(m)[j]] = v], m, v, j + 1)

\* An entry of the trace of a forward pass: "forward" (m.forward() is entered),
\* "returned" (m.forward() has returned) or "copy" (ix.val = ox.val was done),
\* with the values the ports hold at that point.
FwdEv(e, m, ox, ix, g) ==
    [e |-> e, m |-> m, ox |-> ox, ix |-> ix, in_val |-> g.in_val, out_val |-> g.out_val]

FwdLog(g, e, m, ox, ix) == [g EXCEPT !.trace = Append(@, FwdEv(e, m, ox, ix, g))]

\* Module.forward of a module of the graph: _compile on the first call, then
\* _forward; both read every input value
GraphModule_forward(g, m) ==
    IF ~HasInputValues(g, m) THEN Failed(FwdLog(g, "forward", m, None, None))
    ELSE FwdLog(Module_set_output_values(
                    [FwdLog(g, "forward", m, None, None) EXCEPT !.is_compiled[m] = TRUE], m,
                    SumVals(g, Module_inputs(g, m), 1), 1),
                "returned", m, None, None)

RECURSIVE propagate_inputsFirstOnly(_, _, _)
propagate_inputsFirstOnly(g, ox, j) ==
    IF j > Len(g.to_inputs[ox]) \/ j > 1 THEN g
    ELSE propagate_inputsFirstOnly(
            FwdLog([g EXCEPT !.in_val[g.to_inputs[ox][j]] = g.out_val[ox]],
                   "copy", Output_get_module[ox], ox, g.to_inputs[ox][j]), ox, j + 1)

\* "for ix in ox.get_connected_inputs(): ix.val = ox.val"
RECURSIVE propagate_inputs(_, _, _)
propagate_inputs(g, ox, j) ==
    IF j > Len(g.to_inputs[ox]) THEN g
    ELSE propagate_inputs(
            FwdLog([g EXCEPT !.in_val[g.to_inputs[ox][j]] = g.out_val[ox]],
                   "copy", Output_get_module[ox], ox, g.to_inputs[ox][j]), ox, j + 1)

\* "for ox in itervalues(m.outputs)"
RECURSIVE propagate_outputs(_, _, _)
propagate_outputs(g, m, j) ==
    IF j > Len(Module_outputs(m)) THEN g
    ELSE propagate_outputs(propagate_inputs(g, Module_outputs(m)[j], 1), m, j + 1)

RECURSIVE forward_loopCopiesFirst(_, _, _)
forward_loopCopiesFirst(g, seq, k) ==
    IF ~g.ok \/ k > Len(seq) THEN g
    ELSE forward_loopCopiesFirst(GraphModule_forward(propagate_outputs(g, seq[k], 1), seq[k]),
                                 seq, k + 1)

\* "for m in _module_seq"
RECURSIVE forward_loop(_, _, _)
forward_loop(g, seq, k) ==
    IF ~g.ok \/ k > Len(seq) THEN g
    ELSE LET g1 == GraphModule_forward(g, seq[k])
         IN forward_loop(IF g1.ok THEN propagate_outputs(g1, seq[k], 1) ELSE g1, seq, k + 1)

\* "for ix, val in iteritems(input_to_val): ix.val = val"; the dict is the list
\* of its items
RECURSIVE assign_seeds(_, _, _)
assign_seeds(g, input_to_val, k) ==
    IF k > Len(input_to_val) THEN g
    ELSE assign_seeds([g EXCEPT !.in_val[input_to_val[k].ix] = input_to_val[k].val],
                      input_to_val, k + 1)

Keys(input_to_val) == [k \in 1..Len(input_to_val) |-> input_to_val[k].ix]

\* forward(input_to_val, _module_seq), _module_seq given
forward_with_seq(g, input_to_val, _module_seq) ==
    Return(forward_loop(assign_seeds(g, input_to_val, 1), _module_seq, 1), _module_seq)

\* forward(input_to_val), _module_seq left None
forward_pass(g, input_to_val) ==
    forward_with_seq(g, input_to_val, determine_module_eval_seq(g, Keys(input_to_val)))

\* The visit functions handed to the traversals.  Each takes what the caller
\* has accumulated (acc) and the module, and returns the new acc and is_over.
\* acc.visited lists the modules the function was applied to.
Visit(acc, m, is_over) ==
    [acc |-> [acc EXCEPT !.visited = Append(@, m)], is_over |-> is_over]

\* is_specified's fn
is_specified_fn(g, acc, m) ==
    IF \E k \in 1..Len(g.hyperps[m]) : ~g.set_done[g.hyperps[m][k].h]
    THEN Visit([acc EXCEPT !.is_spec = FALSE], m, TRUE)
    ELSE Visit(acc, m, FALSE)

RECURSIVE add_unsetNoCheck(_, _, _, _)
add_unsetNoCheck(g, hs, m, k) ==
    IF k > Len(g.hyperps[m]) THEN hs
    ELSE add_unsetNoCheck(g, IF ~g.set_done[g.hyperps[m][k].h]
                             THEN Append(hs, g.hyperps[m][k].h) ELSE hs, m, k + 1)

\* get_unset_hyperparameters' fn: "for h in itervalues(module.hyperps)"
RECURSIVE add_unset(_, _, _, _)
add_unset(g, hs, m, k) ==
    IF k > Len(g.hyperps[m]) THEN hs
    ELSE add_unset(g, IF ~g.set_done[g.hyperps[m][k].h]
                      THEN OrderedSet_add(hs, g.hyperps[m][k].h) ELSE hs, m, k + 1)

get_unset_fnFirstOnly(g, acc, m) == Visit([acc EXCEPT !.hs = add_unset(g, @, m, 1)], m, TRUE)

get_unset_fn(g, acc, m) == Visit([acc EXCEPT !.hs = add_unset(g, @, m, 1)], m, FALSE)

\* a caller's fn that stops the traversal at module fn.stop (None: never)
stop_at_fn(visit_fn, acc, m) == Visit(acc, m, m = visit_fn.stop)

\* get_unconnected_inputs' fn: "for ix in itervalues(x.inputs)"
RECURSIVE add_unconnected_inputs(_, _, _, _)
add_unconnected_inputs(g, ix_lst, m, j) ==
    IF j > Len(Module_inputs(g, m)) THEN ix_lst
    ELSE add_unconnected_inputs(g, IF g.from_output[Module_inputs(g, m)[j]] = None
                                   THEN Append(ix_lst, Module_inputs(g, m)[j]) ELSE ix_lst,
                                m, j + 1)

unconnected_inputs_fn(g, acc, m) ==
    Visit([acc EXCEPT !.ix_lst = add_unconnected_inputs(g, @, m, 1)], m, FALSE)

\* get_unconnected_outputs' fn: "for ox in itervalues(x.outputs)"
RECURSIVE add_unconnected_outputs(_, _, _, _)
add_unconnected_outputs(g, ox_lst, m, j) ==
    IF j > Len(Module_outputs(m)) THEN ox_lst
    ELSE add_unconnected_outputs(g, IF Len(g.to_inputs[Module_outputs(m)[j]]) = 0
                                    THEN Append(ox_lst, Module_outputs(m)[j]) ELSE ox_lst,
                                 m, j + 1)

unconnected_outputs_fn(g, acc, m) ==
    Visit([acc EXCEPT !.ox_lst = add_unconnected_outputs(g, @, m, 1)], m, FALSE)

Apply(visit_fn, g, acc, m) ==
    CASE visit_fn.name = "is_specified" -> is_specified_fn(g, acc, m)
      [] visit_fn.name = "get_unset" -> get_unset_fn(g, acc, m)
      [] visit_fn.name = "stop_at" -> stop_at_fn(visit_fn, acc, m)
      [] visit_fn.name = "unconnected_inputs" -> unconnected_inputs_fn(g, acc, m)
      [] visit_fn.name = "unconnected_outputs" -> unconnected_outputs_fn(g, acc, m)

NewAcc == [visited |-> <<>>, is_spec |-> TRUE, hs |-> <<>>, ix_lst |-> <<>>, ox_lst |-> <<>>]

\* traverse_backward: "for ix in itervalues(m.inputs)", from the j-th input of m
\* on; w holds memo and ms
RECURSIVE backward_inputs(_, _, _, _)
backward_inputs(g, w, m, j) ==
    IF j > Len(Module_inputs(g, m)) THEN w
    ELSE LET ox == g.from_output[Module_inputs(g, m)[j]]
         IN IF ox = None THEN backward_inputs(g, w, m, j + 1)
            ELSE IF Output_get_module[ox] \in w.memo THEN backward_inputs(g, w, m, j + 1)
            ELSE backward_inputs(g, [memo |-> w.memo \cup {Output_get_module[ox]},
                                     ms |-> Append(w.ms, Output_get_module[ox])], m, j + 1)

RECURSIVE traverse_backward_loopIgnoresIsOver(_, _, _, _, _)
traverse_backward_loopIgnoresIsOver(g, visit_fn, w, k, acc) ==
    IF k > Len(w.ms) THEN acc
    ELSE traverse_backward_loopIgnoresIsOver(g, visit_fn, backward_inputs(g, w, w.ms[k], 1), k + 1,
                                             Apply(visit_fn, g, acc, w.ms[k]).acc)

\* "for m in ms": the walk by position over the list that the body appends to
RECURSIVE traverse_backward_loop(_, _, _, _, _)
traverse_backward_loop(g, visit_fn, w, k, acc) ==
    IF k > Len(w.ms) THEN acc
    ELSE LET r == Apply(visit_fn, g, acc, w.ms[k])
         IN IF r.is_over THEN r.acc
            ELSE traverse_backward_loop(g, visit_fn, backward_inputs(g, w, w.ms[k], 1), k + 1, r.acc)

\* traverse_backward(output_lst, fn)
traverse_backward(g, output_lst, visit_fn) ==
    traverse_backward_loop(g, visit_fn, [memo |-> {},
                                   ms |-> extract_unique_modules(Output_get_module, output_lst)],
                           1, NewAcc)

\* traverse_forward: "for ix in ox.get_connected_inputs()"
RECURSIVE forward_inputs(_, _, _, _)
forward_inputs(g, w, ox, j) ==
    IF j > Len(g.to_inputs[ox]) THEN w
    ELSE LET m_next == Input_get_module[g.to_inputs[ox][j]]
         IN IF m_next \in w.memo THEN forward_inputs(g, w, ox, j + 1)
            ELSE forward_inputs(g, [memo |-> w.memo \cup {m_next},
                                    ms |-> Append(w.ms, m_next)], ox, j + 1)

\* "for ox in itervalues(m.outputs)"
RECURSIVE forward_outputs(_, _, _, _)
forward_outputs(g, w, m, j) ==
    IF j > Len(Module_outputs(m)) THEN w
    ELSE forward_outputs(g, IF Len(g.to_inputs[Module_outputs(m)[j]]) > 0
                            THEN forward_inputs(g, w, Module_outputs(m)[j], 1)
                            ELSE w, m, j + 1)

RECURSIVE traverse_forward_loop(_, _, _, _, _)
traverse_forward_loop(g, visit_fn, w, k, acc) ==
    IF k > Len(w.ms) THEN acc
    ELSE LET r == Apply(visit_fn, g, acc, w.ms[k])
         IN IF r.is_over THEN r.acc
            ELSE traverse_forward_loop(g, visit_fn, forward_outputs(g, w, w.ms[k], 1), k + 1, r.acc)

\* traverse_forward(input_lst, fn)
traverse_forward(g, input_lst, visit_fn) ==
    traverse_forward_loop(g, visit_fn, [memo |-> {},
                                  ms |-> extract_unique_modules(Input_get_module, input_lst)],
                          1, NewAcc)

\* get_unconnected_inputs(output_lst)
get_unconnected_inputs(g, output_lst) ==
    traverse_backward(g, output_lst, [name |-> "unconnected_inputs"]).ix_lst

\* get_unconnected_outputs(input_lst)
get_unconnected_outputs(g, input_lst) ==
    traverse_forward(g, input_lst, [name |-> "unconnected_outputs"]).ox_lst

is_specifiedStartsOnly(g, output_lst) ==
    \A m \in Elements(extract_unique_modules(Output_get_module, output_lst)) :
        \A k \in 1..Len(g.hyperps[m]) : g.set_done[g.hyperps[m][k].h]

\* is_specified(output_lst)
is_specified(g, output_lst) ==
    traverse_backward(g, output_lst, [name |-> "is_specified"]).is_spec

\* get_unset_hyperparameters(output_lst): the OrderedSet returned, as a list;
\* the assert on is_specified ends the call
get_unset_hyperparameters(g, output_lst) ==
    IF is_specified(g, output_lst) THEN Return(Failed(g), <<>>)
    ELSE Return(g, traverse_backward(g, output_lst, [name |-> "get_unset"]).hs)

\* The hyperparameters the constructed modules declare (name_to_hyperp of
\* Module._register): every module one under role "a", every second module
\* another one under role "b"; hyperparameters are shared between modules.
ModuleDecls(m) ==
    <<[m |-> m, name |-> "a", h |-> (m % NumHyps) + 1]>>
    \o (IF m % 2 = 0 THEN <<[m |-> m, name |-> "b", h |-> ((m + 1) % NumHyps) + 1]>> ELSE <<>>)

\* "for name, h in iteritems(name_to_hyperp): self._register_hyperparameter(h, name)"
RECURSIVE Module_register(_, _, _)
Module_register(s, decls, k) ==
    IF ~s.ok \/ k > Len(decls) THEN s
    ELSE Module_register(Module_register_hyperparameter(s, decls[k].m, decls[k].h, decls[k].name),
                         decls, k + 1)

\* the modules 1..n constructed one after the other
RECURSIVE ConstructModules(_, _)
ConstructModules(s, n) ==
    IF n = 0 THEN s ELSE Module_register(ConstructModules(s, n - 1), ModuleDecls(n), 1)

\* A search space whose modules declare one hyperparameter each, so that a
\* module of the variant whose hook sets another hyperparameter depends on a
\* hyperparameter that is not the one its hook sets.
SearchDecls(m) == <<[m |-> m, name |-> "a", h |-> ((m + 1) % NumHyps) + 1]>>

RECURSIVE ConstructSearchModules(_, _)
ConstructSearchModules(s, n) ==
    IF n = 0 THEN s ELSE Module_register(ConstructSearchModules(s, n - 1), SearchDecls(n), 1)

\* the value a searcher assigns: the first of the domain
FirstVal == CHOOSE v \in Domain : \A w \in Domain : v <= w

\* no graph function is running: the graph is still being built
Idle == last.op \in {"init", "build"}

Built == Call("build", None, None, TRUE)

\* the step of a function on the graph: the state it leaves and the call record
GraphStep(g, call) ==
    /\ from_output' = g.from_output
    /\ to_inputs' = g.to_inputs
    /\ set_done' = g.set_done
    /\ val' = g.val
    /\ modules' = g.modules
    /\ hyperps' = g.hyperps
    /\ is_compiled' = g.is_compiled
    /\ in_val' = g.in_val
    /\ out_val' = g.out_val
    /\ last' = call
    /\ UNCHANGED <<logVars, trace, fn, fwd_log, calls, scopeVars, modVars>>

\* a builder's o.connect(i) on an unconnected input
NumEdges == Cardinality({i \in DOMAIN from_output : from_output[i] # None})

wire(o, i) ==
    /\ Idle
    /\ NumEdges < MaxEdges
    /\ i \in DOMAIN from_output
    /\ \E g \in {Output_connect(GraphState, o, i)} : g.ok /\ GraphStep(g, Built)

\* a builder that connects the inputs in the order of their ids: every wiring
\* of back-references is built, each with one order of the outputs' lists
wire_in_order(o, i) ==
    /\ NumEdges < MaxSpaceEdges
    /\ \A j \in DOMAIN from_output : from_output[j] # None => j < i
    /\ wire(o, i)

\* a searcher's h.set_val(v) on an unset hyperparameter
assign(h) ==
    /\ Idle
    /\ \E g \in {Hyperparameter_set_val(GraphState, h, FirstVal)} : g.ok /\ GraphStep(g, Built)

\* The calls of the graph functions.  The record keeps the arguments in a and
\* what the function returned (for a traversal: the modules fn was applied to,
\* in order) in b.
determine_module_eval_seq_call(input_lst) ==
    /\ Idle
    /\ Elements(input_lst) \subseteq DOMAIN from_output
    /\ GraphStep(GraphState, Call("determine_module_eval_seq", input_lst,
                                  determine_module_eval_seq(GraphState, input_lst), TRUE))

forward_call(input_to_val) ==
    /\ Idle
    /\ Elements(Keys(input_to_val)) \subseteq DOMAIN from_output
    /\ \E g \in {forward_pass(GraphState, input_to_val)} :
            GraphStep(g, Call("forward", input_to_val, g.ret, g.ok))

traverse_backward_call(output_lst, visit_fn) ==
    /\ Idle
    /\ GraphStep(GraphState, Call("traverse_backward", [lst |-> output_lst, visit_fn |-> visit_fn],
                                  traverse_backward(GraphState, output_lst, visit_fn).visited, TRUE))

traverse_forward_call(input_lst, visit_fn) ==
    /\ Idle
    /\ Elements(input_lst) \subseteq DOMAIN from_output
    /\ GraphStep(GraphState, Call("traverse_forward", [lst |-> input_lst, visit_fn |-> visit_fn],
                                  traverse_forward(GraphState, input_lst, visit_fn).visited, TRUE))

is_specified_call(output_lst) ==
    /\ Idle
    /\ GraphStep(GraphState, Call("is_specified", output_lst,
                                  is_specified(GraphState, output_lst), TRUE))

get_unset_hyperparameters_call(output_lst) ==
    /\ Idle
    /\ \E g \in {get_unset_hyperparameters(GraphState, output_lst)} :
            GraphStep(g, Call("get_unset_hyperparameters", output_lst, g.ret, g.ok))

\* the step of KerasRandomModel.forward: as GraphStep, and the trace of the pass
ModelStep(g, call) ==
    /\ from_output' = g.from_output
    /\ to_inputs' = g.to_inputs
    /\ is_compiled' = g.is_compiled
    /\ in_val' = g.in_val
    /\ out_val' = g.out_val
    /\ trace' = g.trace
    /\ last' = call
    /\ UNCHANGED <<logVars, set_done, val, modules, hyperps, fn, fwd_log, calls, scopeVars, modVars>>

\* KerasRandomModel.__init__ on a search space whose inputs are input_lst, in
\* the order of their names: the evaluation sequence is computed once and kept
\* in _module_seq
KerasRandomModel_init(input_lst) ==
    /\ Idle
    /\ input_lst # <<>>
    /\ \A j \in 1..Len(input_lst), k \in 1..Len(input_lst) : j < k => input_lst[j] < input_lst[k]
    /\ Elements(input_lst) \subseteq DOMAIN from_output
    /\ GraphStep(GraphState, Call("KerasRandomModel", input_lst,
                                  determine_module_eval_seq(GraphState, input_lst), TRUE))

\* KerasRandomModel.forward(input_name_to_val) with values for the first n
\* inputs of the model; the call record keeps input_to_val in a and the
\* _module_seq handed to forward in b
KerasRandomModel_forward(n) ==
    /\ last.op = "KerasRandomModel"
    /\ n \in 1..Len(last.a)
    /\ \E input_to_val \in {[k \in 1..n |-> [ix |-> last.a[k], val |-> SeedVal(last.a[k])]]} :
        \E g \in {forward_with_seq(GraphState, input_to_val, last.b)} :
            ModelStep(g, Call("KerasRandomModel.forward", input_to_val, g.ret, g.ok))

get_unconnected_inputs_call(output_lst) ==
    /\ Idle
    /\ GraphStep(GraphState, Call("get_unconnected_inputs", output_lst,
                                  get_unconnected_inputs(GraphState, output_lst), TRUE))

get_unconnected_outputs_call(input_lst) ==
    /\ Idle
    /\ Elements(input_lst) \subseteq DOMAIN from_output
    /\ GraphStep(GraphState, Call("get_unconnected_outputs", input_lst,
                                  get_unconnected_outputs(GraphState, input_lst), TRUE))

\* The search driver: "while not is_specified(outputs): pick any h from
\* get_unset_hyperparameters(outputs); h.set_val(valid value)".  The call
\* record keeps the outputs in a and, in b, how many unset hyperparameters the
\* traversal of get_unset_hyperparameters lists (at entry: initial, now:
\* unset) and how many iterations were made.
count_unset(g, output_lst) == Len(traverse_backward(g, output_lst, [name |-> "get_unset"]).hs)

search_start(output_lst) ==
    /\ Idle
    /\ output_lst # <<>>
    /\ \E n \in {count_unset(GraphState, output_lst)} :
        GraphStep(GraphState, Call("search", output_lst,
                                   [initial |-> n, iterations |-> 0, unset |-> n], TRUE))

\* one iteration of the loop: the test, the pick and the set_val of a value of
\* the domain
search_iteration(h) ==
    /\ last.op = "search" /\ last.ok
    /\ ~is_specified(GraphState, last.a)
    /\ Contains(get_unset_hyperparameters(GraphState, last.a).ret, h)
    /\ \E g \in {Hyperparameter_set_val(GraphState, h, FirstVal)} :
        GraphStep(g, Call("search", last.a,
                          [last.b EXCEPT !.iterations = @ + 1,
                                         !.unset = count_unset(g, last.a)], g.ok))

\* the dicts of seed values a caller hands to forward: distinct inputs, in any
\* order, each with a value
InputToVals ==
    {[k \in 1..Len(l) |-> [ix |-> l[k], val |-> SeedVal(l[k])]] : l \in InputLists}

\* the visit functions a caller hands to a traversal
VisitFns == {[name |-> "stop_at", stop |-> None]}

\* ------------------------------------------------------- search logging
\* Evaluation folders are identified by their evaluation_id, numbered from zero;
\* the standard log files of a folder by their name without ".json".
NumEvals == 1
NumLogVals == 2

EvalIds == 0..(NumEvals - 1)
LogNames == {"config", "features", "results"}
LogVals == 1..NumLogVals
\* the content of a file that a dump which raised left behind
Partial == NumLogVals + 1

\* What a caller hands to a log method: v is what a complete dump writes, json
\* says whether json can serialize it, dict whether it is a dict.  The values
\* are told apart only where a dump can complete.
LogArgs ==
    {d \in [v : LogVals, json : BOOLEAN, dict : BOOLEAN] : (d.json /\ d.dict) \/ d.v = 1}

\* The file system a function works on; ok turns FALSE when an exception leaves it.
DiskState ==
    [search |-> disk.search, evals |-> disk.evals, data |-> disk.data,
     files |-> disk.files, ok |-> TRUE]

NoFiles == [name \in LogNames |-> None]

\* ut.file_exists(filepath) for a standard log file of an evaluation folder
file_exists(s, id, name) == s.files[id][name] # None

\* ut.folder_exists(folderpath) for an evaluation folder
folder_exists(s, id) == s.evals[id]

\* ut.delete_folder(search_folderpath, False, False): the folder goes with all
\* that is below it; a folder that is not there is left alone.
delete_folder(s) ==
    [s EXCEPT !.search = FALSE,
              !.evals = [id \in EvalIds |-> FALSE],
              !.data = [id \in EvalIds |-> FALSE],
              !.files = [id \in EvalIds |-> NoFiles]]

\* ut.create_folder(evaluation_folderpath, abort_if_exists): the parent folder
\* has to be there; an existing folder is left as it is.
create_evaluation_folder(s, id, abort_if_exists) ==
    IF ~s.search THEN Failed(s)
    ELSE IF abort_if_exists /\ s.evals[id] THEN Failed(s)
    ELSE [s EXCEPT !.evals[id] = TRUE]

\* ut.create_folder(evaluation_data_folderpath, abort_if_exists)
create_evaluation_data_folder(s, id, abort_if_exists) ==
    IF ~s.evals[id] THEN Failed(s)
    ELSE IF abort_if_exists /\ s.data[id] THEN Failed(s)
    ELSE [s EXCEPT !.data[id] = TRUE]

\* ut.write_jsonfile(d, filepath), as the set of states it can leave: the file
\* cannot be opened in a folder that is not there; a dump that raises may or may
\* not leave an incomplete file behind; a complete dump replaces the content.
write_jsonfile(s, d, id, name) ==
    IF ~s.evals[id] THEN {Failed(s)}
    ELSE IF ~d.json THEN {Failed(s), Failed([s EXCEPT !.files[id][name] = Partial])}
    ELSE {[s EXCEPT !.files[id][name] = d.v]}

\* create_search_folderpath(folderpath, search_name, abort_if_exists, delete_if_exists),
\* called where folderpath is there: "search" stands for the search folder with
\* its search_data and evaluations folders, which are made and deleted together.
create_search_folderpath_fn(s, abort_if_exists, delete_if_exists) ==
    IF abort_if_exists /\ delete_if_exists THEN Failed(s)
    ELSE LET s1 == IF delete_if_exists THEN delete_folder(s) ELSE s
         IN IF abort_if_exists /\ s1.search THEN Failed(s1)
            ELSE IF ~s1.search THEN [s1 EXCEPT !.search = TRUE]
            ELSE s1

\* EvaluationLogger.__init__(folderpath, search_name, evaluation_id = id, ...)
EvaluationLogger_init(s, id, abort_if_exists, abort_if_notexists) ==
    IF abort_if_exists /\ folder_exists(s, id) THEN Failed(s)
    ELSE IF abort_if_notexists /\ ~folder_exists(s, id) THEN Failed(s)
    ELSE LET s1 == create_evaluation_folder(s, id, abort_if_exists)
         IN IF ~s1.ok THEN s1
            ELSE create_evaluation_data_folder(s1, id, abort_if_exists)

\* EvaluationLogger.log_config(self = the logger of id, ...): d stands for config_d
EvaluationLogger_log_configOverwrites(s, id, d) == write_jsonfile(s, d, id, "config")

EvaluationLogger_log_config(s, id, d) ==
    IF file_exists(s, id, "config") THEN {Failed(s)}
    ELSE write_jsonfile(s, d, id, "config")

\* EvaluationLogger.log_features(self, inputs, outputs, hyperps): d stands for
\* the features extracted; an extraction that raises writes nothing.
EvaluationLogger_log_features(s, id, d) ==
    IF file_exists(s, id, "features") THEN {Failed(s)}
    ELSE write_jsonfile(s, d, id, "features")

\* EvaluationLogger.log_results(self, results = d)
EvaluationLogger_log_resultsNeedsConfigOnly(s, id, d) ==
    IF file_exists(s, id, "results") THEN {Failed(s)}
    ELSE IF ~file_exists(s, id, "config") THEN {Failed(s)}
    ELSE IF ~d.dict THEN {Failed(s)}
    ELSE write_jsonfile(s, d, id, "results")

EvaluationLogger_log_results(s, id, d) ==
    IF file_exists(s, id, "results") THEN {Failed(s)}
    ELSE IF ~(file_exists(s, id, "config") /\ file_exists(s, id, "features")) THEN {Failed(s)}
    ELSE IF ~d.dict THEN {Failed(s)}
    ELSE write_jsonfile(s, d, id, "results")

\* The step of a logging call: the file system it leaves, the loggers there
\* are after it and the record of the call.
LogStep(s, lgs, op, a, b) ==
    /\ disk' = [search |-> s.search, evals |-> s.evals, data |-> s.data, files |-> s.files]
    /\ loggers' = lgs
    /\ last' = Call(op, a, b, s.ok)
    /\ UNCHANGED <<portVars, hypVars, fwdVars, scopeVars, modVars>>

create_search_folderpath(abort_if_exists, delete_if_exists) ==
    LogStep(create_search_folderpath_fn(DiskState, abort_if_exists, delete_if_exists),
            loggers, "create_search_folderpath", abort_if_exists, delete_if_exists)

\* a constructor that raised has made no logger
EvaluationLogger_new(id, abort_if_exists, abort_if_notexists) ==
    \E s \in {EvaluationLogger_init(DiskState, id, abort_if_exists, abort_if_notexists)} :
        LogStep(s, IF s.ok THEN loggers \cup {id} ELSE loggers,
                "EvaluationLogger", id, abort_if_exists)

log_config(id, d) ==
    /\ id \in loggers
    /\ \E s \in EvaluationLogger_log_config(DiskState, id, d) :
           LogStep(s, loggers, "log_config", id, d.v)

log_features(id, d) ==
    /\ id \in loggers
    /\ \E s \in EvaluationLogger_log_features(DiskState, id, d) :
           LogStep(s, loggers, "log_features", id, d.v)

log_results(id, d) ==
    /\ id \in loggers
    /\ \E s \in EvaluationLogger_log_results(DiskState, id, d) :
           LogStep(s, loggers, "log_results", id, d.v)

\* no search folder yet and no logger
LogNew ==
    /\ disk = [search |-> FALSE,
               evals |-> [id \in EvalIds |-> FALSE],
               data |-> [id \in EvalIds |-> FALSE],
               files |-> [id \in EvalIds |-> NoFiles]]
    /\ loggers = {}

\* ---------------------------------------------------------- specifications
HypsNew ==
    /\ set_done = [h \in Hyps |-> FALSE]
    /\ val = [h \in Hyps |-> None]
    /\ modules = [h \in Hyps |-> <<>>]
    /\ hyperps = [m \in ModuleIds |-> <<>>]
    /\ trace = <<>>

PortsNew ==
    /\ from_output = [i \in Inputs |-> None]
    /\ to_inputs = [o \in Outputs |-> <<>>]

FwdNew ==
    /\ is_compiled = [m \in ModuleIds |-> FALSE]
    /\ fn = [m \in ModuleIds |-> None]
    /\ in_val = [m \in ModuleIds |-> None]
    /\ out_val = [m \in ModuleIds |-> None]
    /\ fwd_log = [m \in ModuleIds |-> <<>>]
    /\ calls = [m \in ModuleIds |-> 0]

ScopeNew ==
    /\ name_to_elem = <<>>
    /\ elem_to_name = <<>>
    /\ scope_last = ScopeCall("init", "", None, "", TRUE)

\* modules that have registered no port yet
ModsNew ==
    /\ inputs = [m \in ModuleIds |-> <<>>]
    /\ outputs = [m \in ModuleIds |-> <<>>]

AllNew ==
    /\ PortsNew
    /\ HypsNew
    /\ FwdNew
    /\ ScopeNew
    /\ ModsNew
    /\ LogNew
    /\ last = Call("init", None, None, TRUE)

InitPorts == AllNew

NextPorts ==
    \/ \E o \in Outputs, i \in Inputs : connect(o, i)
    \/ \E i \in Inputs : disconnect(i)
    \/ \E i \in Inputs, j \in Inputs : reroute_connected_output(i, j)
    \/ \E o \in Outputs : disconnect_all(o)
    \/ \E o \in Outputs, o2 \in Outputs : reroute_all_connected_inputs(o, o2)

SpecPorts == InitPorts /\ [][NextPorts]_vars

InitHyps == AllNew

NextHyps ==
    \/ \E m \in ModuleIds, h \in Hyps, name \in RoleNames : register_hyperparameter(m, h, name)
    \/ \E h \in Hyps, v \in ArgVals : set_val(h, v)

SpecHyps == InitHyps /\ [][NextHyps]_vars

InitHypReads == AllNew

\* a driver that declares hyperparameters under one role and reads them
NextHypReads ==
    \/ \E m \in ModuleIds, h \in Hyps : register_hyperparameter(m, h, "a")
    \/ \E h \in Hyps, v \in ArgVals : set_val(h, v)
    \/ \E h \in Hyps : get_val(h)
    \/ \E h \in Hyps : is_set(h)

SpecHypReads == InitHypReads /\ [][NextHypReads]_vars

InitForward == AllNew

NextForward ==
    \/ \E m \in ModuleIds, v \in InVals : set_input(m, v)
    \/ \E m \in ModuleIds : module_forward(m)

SpecForward == InitForward /\ [][NextForward]_vars

InitScope == AllNew

NextScope ==
    \/ \E name \in DirectNames, elem \in Elems : register(name, elem)
    \/ \E prefix \in Prefixes : get_unused_name(prefix)
    \/ \E prefix \in Prefixes, elem \in Elems : new_addressable(prefix, elem)

SpecScope == InitScope /\ [][NextScope]_vars

\* the scope after the modules and the hyperparameters were constructed
Constructed ==
    ConstructAll(ConstructAll([name_to_elem |-> <<>>, elem_to_name |-> <<>>, ok |-> TRUE],
                              "Module", NumModules), "Hyperparameter", NumHyps)

InitRegister ==
    /\ HypsNew
    /\ FwdNew
    /\ ModsNew
    /\ from_output = <<>>
    /\ to_inputs = <<>>
    /\ name_to_elem = Constructed.name_to_elem
    /\ elem_to_name = Constructed.elem_to_name
    /\ scope_last = ScopeCall("init", "", None, "", TRUE)
    /\ LogNew
    /\ last = Call("init", None, None, TRUE)

NextRegister ==
    Constructing /\ \E m \in ModuleIds, a \in RegisterArgs : register_call(m, a)

SpecRegister == InitRegister /\ [][NextRegister]_vars

\* the modules of a graph after construction, none connected, no values
GraphNew ==
    /\ \E ins \in InputLayouts :
        /\ from_output = [i \in ins |-> None]
        /\ in_val = [i \in ins |-> None]
    /\ inputs = [m \in Nodes |-> Module_inputs([from_output |-> from_output], m)]
    /\ outputs = [m \in Nodes |-> Module_outputs(m)]
    /\ to_inputs = [o \in GraphOutputs |-> <<>>]
    /\ is_compiled = [m \in Nodes |-> FALSE]
    /\ fn = [m \in Nodes |-> None]
    /\ out_val = [o \in GraphOutputs |-> None]
    /\ fwd_log = [m \in Nodes |-> <<>>]
    /\ calls = [m \in Nodes |-> 0]
    /\ trace = <<>>
    /\ ScopeNew
    /\ LogNew
    /\ last = Call("init", None, None, TRUE)

\* modules without hyperparameters
NoHyps ==
    [set_done |-> [h \in Hyps |-> FALSE], val |-> [h \in Hyps |-> None],
     modules |-> [h \in Hyps |-> <<>>], hyperps |-> [m \in Nodes |-> <<>>],
     trace |-> <<>>, ok |-> TRUE]

InitGraph ==
    /\ GraphNew
    /\ set_done = NoHyps.set_done
    /\ val = NoHyps.val
    /\ modules = NoHyps.modules
    /\ hyperps = NoHyps.hyperps

\* modules constructed with the hyperparameters they declare
InitSearchSpace ==
    /\ GraphNew
    /\ set_done = ConstructModules(NoHyps, NumNodes).set_done
    /\ val = ConstructModules(NoHyps, NumNodes).val
    /\ modules = ConstructModules(NoHyps, NumNodes).modules
    /\ hyperps = ConstructModules(NoHyps, NumNodes).hyperps

NextEval ==
    \/ \E o \in GraphOutputs, i \in GraphInputs : wire(o, i)
    \/ \E input_lst \in InputLists : determine_module_eval_seq_call(input_lst)

SpecEval == InitGraph /\ [][NextEval]_vars

NextForwardPass ==
    \/ \E o \in GraphOutputs, i \in GraphInputs : wire(o, i)
    \/ \E input_to_val \in InputToVals : forward_call(input_to_val)

SpecForwardPass == InitGraph /\ [][NextForwardPass]_vars

NextModelForward ==
    \/ \E o \in GraphOutputs, i \in GraphInputs : wire(o, i)
    \/ \E input_lst \in InputLists : KerasRandomModel_init(input_lst)
    \/ \E n \in 1..MaxPorts : KerasRandomModel_forward(n)

SpecModelForward == InitGraph /\ [][NextModelForward]_vars

\* a caller's traversal with a function that returns true at a module the
\* traversal gets to
stopped_backward_call(output_lst) ==
    /\ Idle
    /\ \E m \in Elements(traverse_backward(GraphState, output_lst,
                                           [name |-> "stop_at", stop |-> None]).visited) :
            traverse_backward_call(output_lst, [name |-> "stop_at", stop |-> m])

stopped_forward_call(input_lst) ==
    /\ Idle
    /\ Elements(input_lst) \subseteq DOMAIN from_output
    /\ \E m \in Elements(traverse_forward(GraphState, input_lst,
                                          [name |-> "stop_at", stop |-> None]).visited) :
            traverse_forward_call(input_lst, [name |-> "stop_at", stop |-> m])

NextTraverseStop ==
    \/ \E o \in GraphOutputs, i \in GraphInputs : wire_in_order(o, i)
    \/ \E output_lst \in OutputLists, f \in VisitFns : traverse_backward_call(output_lst, f)
    \/ \E input_lst \in InputLists, f \in VisitFns : traverse_forward_call(input_lst, f)
    \/ \E output_lst \in OutputLists : stopped_backward_call(output_lst)
    \/ \E input_lst \in InputLists : stopped_forward_call(input_lst)

SpecTraverseStop == InitGraph /\ [][NextTraverseStop]_vars

NextUnconnected ==
    \/ \E o \in GraphOutputs, i \in GraphInputs : wire(o, i)
    \/ \E output_lst \in OutputLists : get_unconnected_inputs_call(output_lst)
    \/ \E input_lst \in InputLists : get_unconnected_outputs_call(input_lst)

SpecUnconnected == InitGraph /\ [][NextUnconnected]_vars

InitSearch ==
    /\ GraphNew
    /\ set_done = ConstructSearchModules(NoHyps, NumNodes).set_done
    /\ val = ConstructSearchModules(NoHyps, NumNodes).val
    /\ modules = ConstructSearchModules(NoHyps, NumNodes).modules
    /\ hyperps = ConstructSearchModules(NoHyps, NumNodes).hyperps

NextSearch ==
    \/ \E o \in GraphOutputs, i \in GraphInputs : wire_in_order(o, i)
    \/ \E output_lst \in OutputLists : search_start(output_lst)
    \/ \E h \in Hyps : search_iteration(h)

SpecSearch == InitSearch /\ [][NextSearch]_vars

InitLogging == AllNew

NextLogging ==
    \/ \E abort_if_exists, delete_if_exists \in BOOLEAN :
           create_search_folderpath(abort_if_exists, delete_if_exists)
    \/ \E id \in EvalIds, abort_if_exists, abort_if_notexists \in BOOLEAN :
           EvaluationLogger_new(id, abort_if_exists, abort_if_notexists)
    \/ \E id \in EvalIds, d \in LogArgs : log_config(id, d)
    \/ \E id \in EvalIds, d \in LogArgs : log_features(id, d)
    \/ \E id \in EvalIds, d \in LogArgs : log_results(id, d)

SpecLogging == InitLogging /\ [][NextLogging]_vars

NextTraverse ==
    \/ \E o \in GraphOutputs, i \in GraphInputs : wire(o, i)
    \/ \E output_lst \in OutputLists, f \in VisitFns : traverse_backward_call(output_lst, f)
    \/ \E input_lst \in InputLists, f \in VisitFns : traverse_forward_call(input_lst, f)

SpecTraverse == InitGraph /\ [][NextTraverse]_vars

NextSpecified ==
    \/ \E o \in GraphOutputs, i \in GraphInputs : wire_in_order(o, i)
    \/ \E h \in Hyps : assign(h)
    \/ \E output_lst \in OutputLists : is_specified_call(output_lst)

SpecSpecified == InitSearchSpace /\ [][NextSpecified]_vars

NextUnset ==
    \/ \E o \in GraphOutputs, i \in GraphInputs : wire_in_order(o, i)
    \/ \E h \in Hyps : assign(h)
    \/ \E output_lst \in OutputLists : get_unset_hyperparameters_call(output_lst)

SpecUnset == InitSearchSpace /\ [][NextUnset]_vars

\* ================================================================== claims
\* --- ports (SpecPorts)

\* C1: a successful connect(O, I) starts from I unconnected, sets I's
\* back-reference to O and appends I last to O's list, where it then occurs
\* exactly once; disconnect(I) applied to the resulting state succeeds and gives
\* back the back-references and lists of the state before the connect.
C1_ConnectDisconnectRoundTrip ==
    [][(last'.op = "connect" /\ last'.ok) =>
        LET o == last'.a
            i == last'.b
            back == Input_disconnect(PortState', i)
        IN /\ from_output[i] = None
           /\ from_output'[i] = o
           /\ to_inputs'[o] = Append(to_inputs[o], i)
           /\ Count(to_inputs'[o], i) = 1
           /\ back.ok
           /\ back.from_output = from_output
           /\ back.to_inputs = to_inputs]_vars

\* a connect that succeeded on an output that already fed another input
C1_Witness ==
    /\ last.op = "connect" /\ last.ok
    /\ Len(to_inputs[last.a]) >= 2
    /\ to_inputs[last.a][Len(to_inputs[last.a])] = last.b

\* C2: in every reachable state an input is in an output's list iff its
\* back-reference is that output, it is there at most once, and it is in the
\* list of at most one output.
C2_ReferentialSymmetry ==
    \A i \in Inputs :
        /\ \A o \in Outputs :
            /\ Contains(to_inputs[o], i) <=> from_output[i] = o
            /\ Count(to_inputs[o], i) <= 1
        /\ Cardinality({o \in Outputs : Contains(to_inputs[o], i)}) <= 1

\* a reroute_connected_output that failed half way: the input was disconnected
\* and the target kept its own connection
C2_Witness ==
    /\ last.op = "reroute_connected_output" /\ ~last.ok
    /\ last.a # last.b
    /\ from_output[last.a] = None
    /\ from_output[last.b] # None
    /\ \E o \in Outputs : Len(to_inputs[o]) >= 2

\* C3: reroute_all_connected_inputs(O, O2), O2 another output with no
\* connections, leaves O with no connected inputs and O2 connected to the former
\* inputs of O in the same order.
C3_RerouteAllMovesEverything ==
    [][(/\ last'.op = "reroute_all_connected_inputs"
        /\ last'.a # last'.b
        /\ to_inputs[last'.b] = <<>>) =>
        /\ to_inputs'[last'.a] = <<>>
        /\ to_inputs'[last'.b] = to_inputs[last'.a]]_vars

\* --- hyperparameters (SpecHyps)

\* positions of an entry in a trace
Pos(tr, e, h, m) == {k \in 1..Len(tr) : tr[k].e = e /\ tr[k].h = h /\ tr[k].m = m}

\* the hyperparameters a step has set (by the call itself or by a hook it ran)
NewlySet == {h \in Hyps : ~set_done[h] /\ set_done'[h]}

\* the value a set_val step passed for h: the caller's, or a hook's
Passed(h) == IF h = last'.a THEN last'.b ELSE HookVal

DependsOn(m, h) == \E k \in 1..Len(hyperps[m]) : hyperps[m][k].h = h

\* C4: a successful set_val(v) on H invokes the _update of every module that
\* registered H (under one role name or several) exactly once, at a moment when
\* H.is_set() is true and H's value is v, after the value was stored and before
\* set_val returns.
C4_EachDependentUpdatedOnce ==
    [][(last'.op = "set_val" /\ last'.ok) =>
        /\ last'.a \in NewlySet
        /\ \A h \in NewlySet : \A m \in ModuleIds :
            LET upd == Pos(trace', "update", h, m)
            IN IF DependsOn(m, h)
               THEN /\ Cardinality(upd) = 1
                    /\ Cardinality(Pos(trace', "updated", h, m)) = 1
                    /\ \A k \in upd :
                        /\ trace'[k].is_set
                        /\ trace'[k].val = Passed(h)
                        /\ \E a \in Pos(trace', "set", h, None) : a < k
                        /\ \E r \in Pos(trace', "return", h, None) :
                            \E d \in Pos(trace', "updated", h, m) : k < d /\ d < r
               ELSE upd = {}]_vars

\* a set_val that returned after notifying a module registered under two roles
C4_Witness ==
    /\ last.op = "set_val" /\ last.ok
    /\ \E m \in ModuleIds :
        /\ Cardinality({k \in 1..Len(hyperps[m]) : hyperps[m][k].h = last.a}) = 2
        /\ Pos(trace, "update", last.a, m) # {}

\* the entries of a trace that are h's own calls of _update and their returns
RECURSIVE OwnCalls(_, _)
OwnCalls(tr, h) ==
    IF tr = <<>> THEN <<>>
    ELSE IF Head(tr).h = h /\ Head(tr).e \in {"update", "updated"}
         THEN <<<<Head(tr).e, Head(tr).m>>>> \o OwnCalls(Tail(tr), h)
         ELSE OwnCalls(Tail(tr), h)

\* one call and one return per module, module after module
RECURSIVE OneByOne(_)
OneByOne(ms) ==
    IF ms = <<>> THEN <<>>
    ELSE <<<<"update", Head(ms)>>, <<"updated", Head(ms)>>>> \o OneByOne(Tail(ms))

IsPrefix(a, b) == Len(a) <= Len(b) /\ \A k \in 1..Len(a) : a[k] = b[k]

\* C5: a module that registers on H for the first time goes behind those that
\* registered before (no step reorders H's dependents), and set_val on H calls the
\* dependents' _update in that order, each call returning, with whatever set_val
\* it made on other hyperparameters, before the next one is made.
C5_NotifiedInRegistrationOrder ==
    [][/\ \A h \in Hyps : IsPrefix(modules[h], modules'[h])
       /\ (last'.op = "set_val" /\ last'.ok) =>
            \A h \in NewlySet : OwnCalls(trace', h) = OneByOne(modules[h])]_vars

\* two modules notified by one set_val, the first of which set another
\* hyperparameter from inside its hook
C5_Witness ==
    /\ last.op = "set_val" /\ last.ok
    /\ Len(modules[last.a]) = 2
    /\ modules[last.a][1] # modules[last.a][2]
    /\ \E h \in Hyps \ {last.a} : \E k \in Pos(trace, "set", h, None) :
        /\ \E a \in Pos(trace, "update", last.a, modules[last.a][1]) : a < k
        /\ \E d \in Pos(trace, "updated", last.a, modules[last.a][1]) : k < d

C7_ValidationPrecedesCommit ==
    [][(/\ last'.op = "set_val"
        /\ ~set_done[last'.a]
        /\ ~Hyperparameter_check_val(last'.a, last'.b)) =>
        /\ ~last'.ok
        /\ ~set_done'[last'.a]
        /\ val'[last'.a] = None
        /\ trace' = <<>>
        /\ UNCHANGED <<set_done, val, modules, hyperps>>
        /\ \A v \in Domain :
            LET s == Hyperparameter_set_val(HypState', last'.a, v)
            IN s.ok /\ s.set_done[last'.a] /\ s.val[last'.a] = v]_vars

\* a rejected value on an unset hyperparameter that has dependent modules
C7_Witness ==
    /\ last.op = "set_val" /\ ~last.ok
    /\ ~set_done[last.a]
    /\ ~Hyperparameter_check_val(last.a, last.b)
    /\ modules[last.a] # <<>>

\* --- module forward (SpecForward)

\* k "forward" entries
RECURSIVE Forwards(_)
Forwards(k) == IF k = 0 THEN <<>> ELSE <<"forward">> \o Forwards(k - 1)

\* C8: after k >= 1 forward() calls of a module that returned, its _compile has
\* run exactly once, before every _forward, and its _forward exactly k times;
\* and no step turns the compiled flag of a module back to false.
C8_CompileOnceForwardEveryCall ==
    [][\A m \in ModuleIds :
        /\ calls'[m] >= 1 => /\ fwd_log'[m] = <<"compile">> \o Forwards(calls'[m])
                             /\ is_compiled'[m]
        /\ is_compiled[m] => is_compiled'[m]]_vars

\* a module whose forward() returned at least twice, with different input values
C8_Witness ==
    \E m \in ModuleIds :
        /\ calls[m] >= 2
        /\ last.op = "forward" /\ last.ok /\ last.a = m
        /\ out_val[m] = 2

\* --- scope (SpecScope)

\* C9: a register under a name that is already present fails and leaves both
\* directions of the registry as they were; in particular, right after a
\* successful register(n, x), a register(n, y) fails, get_name(x) is still n,
\* get_elem(n) is still x, and y gets no name from it.
C9_DuplicateRegisterChangesNothing ==
    [][(scope_last'.op = "register" /\ scope_last'.name \in DOMAIN name_to_elem) =>
        /\ ~scope_last'.ok
        /\ UNCHANGED <<name_to_elem, elem_to_name>>
        /\ (/\ scope_last.op = "register" /\ scope_last.ok
            /\ scope_last.name = scope_last'.name) =>
              /\ elem_to_name'[scope_last.elem] = scope_last.name
              /\ name_to_elem'[scope_last.name] = scope_last.elem
              /\ (scope_last'.elem \notin DOMAIN elem_to_name
                    => scope_last'.elem \notin DOMAIN elem_to_name')]_vars

\* register(n, x) that succeeded, directly followed by register(n, y) with
\* another, unnamed y, that failed
C9_Witness ==
    /\ scope_last.op = "register" /\ ~scope_last.ok
    /\ scope_last.name \in DOMAIN name_to_elem
    /\ name_to_elem[scope_last.name] # scope_last.elem
    /\ elem_to_name[name_to_elem[scope_last.name]] = scope_last.name
    /\ scope_last.elem \notin DOMAIN elem_to_name

\* the largest suffix get_unused_name can reach: one past the number of names
MaxSuffix == Cardinality(DirectNames) + NumElems

\* C10: get_unused_name(prefix) returns prefix followed by str(i) for the
\* smallest i >= 0 whose name is not registered, hence never a registered name;
\* it leaves the registry unchanged; and two calls in a row with the same prefix
\* return the same name.
C10_UnusedNameIsFirstFree ==
    [][scope_last'.op = "get_unused_name" =>
        /\ scope_last'.ret \notin DOMAIN name_to_elem
        /\ \E i \in 0..MaxSuffix :
            /\ scope_last'.ret = scope_last'.name \o Str(i)
            /\ \A j \in 0..(i - 1) : (scope_last'.name \o Str(j)) \in DOMAIN name_to_elem
        /\ UNCHANGED <<name_to_elem, elem_to_name>>
        /\ (scope_last.op = "get_unused_name" /\ scope_last.name = scope_last'.name)
              => scope_last'.ret = scope_last.ret]_vars

\* a query answered "a0" while "a1" is taken, just after the same query
C10_Witness ==
    /\ scope_last.op = "get_unused_name"
    /\ scope_last.ret = "a0"
    /\ "a1" \in DOMAIN name_to_elem

\* --- failing and partial port operations (SpecPorts)

\* a list without every occurrence of x, the others in their order
Without(s, x) == SelectSeq(s, LAMBDA y : y # x)

\* C15: connect(O, I) on an input I that already has a from_output fails, and
\* leaves I's back-reference and every output's list (the previous output's
\* and O's among them) as they were.
C15_ConnectOnConnectedInputFails ==
    [][(last'.op = "connect" /\ from_output[last'.b] # None) =>
        /\ ~last'.ok
        /\ from_output' = from_output
        /\ to_inputs' = to_inputs]_vars

\* a connect that failed on an input still connected to another output
C15_Witness ==
    /\ last.op = "connect" /\ ~last.ok
    /\ from_output[last.b] # None
    /\ from_output[last.b] # last.a
    /\ Contains(to_inputs[from_output[last.b]], last.b)
    /\ ~Contains(to_inputs[last.a], last.b)

\* C16: disconnect(I) on an unconnected input fails and changes no port state;
\* on a connected input it succeeds, takes I out of the list of the output it
\* was connected to (the other entries and their order stay), clears I's
\* back-reference and touches no other input or output.
C16_DisconnectFrame ==
    [][last'.op = "disconnect" =>
        LET i == last'.a
        IN IF from_output[i] = None
           THEN /\ ~last'.ok
                /\ from_output' = from_output
                /\ to_inputs' = to_inputs
           ELSE /\ last'.ok
                /\ from_output' = [from_output EXCEPT ![i] = None]
                /\ to_inputs' = [to_inputs EXCEPT ![from_output[i]] = Without(@, i)]]_vars

\* a disconnect that succeeded on an output that keeps other inputs
C16_Witness ==
    /\ last.op = "disconnect" /\ last.ok
    /\ from_output[last.a] = None
    /\ \E o \in Outputs :
        /\ Len(to_inputs[o]) = 2
        /\ to_inputs[o][1] < last.a
        /\ last.a < to_inputs[o][2]

\* C17: reroute_connected_output(I, J) is not atomic.  With I connected to O
\* and J another input that is already connected, the call fails after it has
\* disconnected I: I has no back-reference, O's list has lost I and nothing
\* else, and J's connection is as before.  With I unconnected the call fails
\* and changes nothing.
C17_RerouteConnectedOutputNotAtomic ==
    [][last'.op = "reroute_connected_output" =>
        LET i == last'.a
            j == last'.b
        IN /\ from_output[i] = None =>
                /\ ~last'.ok
                /\ from_output' = from_output
                /\ to_inputs' = to_inputs
           /\ (from_output[i] # None /\ j # i /\ from_output[j] # None) =>
                /\ ~last'.ok
                /\ from_output'[i] = None
                /\ from_output'[j] = from_output[j]
                /\ from_output' = [from_output EXCEPT ![i] = None]
                /\ to_inputs' = [to_inputs EXCEPT ![from_output[i]] = Without(@, i)]]_vars

\* a reroute that failed at its connect step: the target is still in the list
\* of its own output and the rerouted input is in no list
C17_Witness ==
    /\ last.op = "reroute_connected_output" /\ ~last.ok
    /\ last.a # last.b
    /\ from_output[last.b] # None
    /\ Contains(to_inputs[from_output[last.b]], last.b)
    /\ \A o \in Outputs : ~Contains(to_inputs[o], last.a)

\* --- reading a hyperparameter (SpecHypReads)

\* C20: get_val() on a hyperparameter that is not set fails and changes no
\* state; is_set() returns whether the hyperparameter is set and changes no
\* state either.
C20_ReadsChangeNothing ==
    [][/\ (last'.op = "get_val" /\ ~set_done[last'.a]) =>
            /\ ~last'.ok
            /\ UNCHANGED <<set_done, val, modules, hyperps>>
       /\ last'.op = "is_set" =>
            /\ last'.ok
            /\ last'.b = 1 <=> set_done[last'.a]
            /\ last'.b = 0 <=> ~set_done[last'.a]
            /\ UNCHANGED <<set_done, val, modules, hyperps>>]_vars

\* a get_val that failed on an unset hyperparameter with a dependent module,
\* while another hyperparameter is set
C20_Witness ==
    /\ last.op = "get_val" /\ ~last.ok
    /\ ~set_done[last.a]
    /\ val[last.a] = None
    /\ modules[last.a] # <<>>
    /\ \E h \in Hyps : set_done[h]

\* --- hyperparameters of a search space (SpecSpecified, SpecUnset)

\* C11: for every graph and every list of outputs, is_specified(outputs) is
\* false exactly when get_unset_hyperparameters(outputs) returns, and returns a
\* non-empty set.
C11_UnspecifiedIffUnsetNonEmpty ==
    [][last'.op = "get_unset_hyperparameters" =>
        ((~is_specified(GraphState, last'.a)) <=> (last'.ok /\ last'.b # <<>>))]_vars

\* a call on two outputs that returned unset hyperparameters although another
\* hyperparameter is set and the first output's module is fully set
C11_Witness ==
    /\ last.op = "get_unset_hyperparameters" /\ last.ok
    /\ Len(last.a) = 2
    /\ last.b # <<>>
    /\ \E h \in Hyps : set_done[h]
    /\ is_specified(GraphState, <<last.a[1]>>)
    /\ ~is_specified(GraphState, last.a)

\* --- evaluation order and forward pass (SpecEval, SpecForwardPass)

\* the graph is the chain A -> B -> C of modules with one input each, and
\* nothing else is connected to them
IsChain(A, B, C) ==
    /\ from_output[A] = None /\ from_output[B] = A /\ from_output[C] = B
    /\ to_inputs[A] = <<B>> /\ to_inputs[B] = <<C>> /\ to_inputs[C] = <<>>
    /\ Cardinality({A, B, C}) = 3
    /\ Module_inputs(GraphState, A) = <<A>>
    /\ Module_inputs(GraphState, B) = <<B>>
    /\ Module_inputs(GraphState, C) = <<C>>

\* C12: the sequence determine_module_eval_seq(inputs) returns is a valid
\* evaluation order: every declared input of every module in it is a seed or is
\* connected to an output of a module that stands strictly earlier in the
\* sequence.  For the chain A -> B -> C seeded with A's only input the result
\* is [A, B, C].
C12_ValidEvaluationOrder ==
    [][last'.op = "determine_module_eval_seq" =>
        LET seq == last'.b
        IN /\ \A k \in 1..Len(seq) :
                \A j \in 1..Len(Module_inputs(GraphState, seq[k])) :
                    LET ix == Module_inputs(GraphState, seq[k])[j]
                    IN \/ ix \in Elements(last'.a)
                       \/ /\ from_output[ix] # None
                          /\ \E e \in 1..(k - 1) : seq[e] = Output_get_module[from_output[ix]]
           /\ \A A \in Nodes, B \in Nodes, C \in Nodes :
                (last'.a = <<A>> /\ IsChain(A, B, C)) => seq = <<A, B, C>>]_vars

\* the order computed for the chain out of its first input
C12_Witness ==
    /\ last.op = "determine_module_eval_seq"
    /\ \E A \in Nodes, B \in Nodes, C \in Nodes :
        /\ IsChain(A, B, C)
        /\ last.a = <<A>>
        /\ last.b = <<A, B, C>>

\* every input of the graph is given a value by the caller or is connected
FullyWired(input_to_val) ==
    \A i \in DOMAIN from_output :
        i \in Elements(Keys(input_to_val)) \/ from_output[i] # None

\* after the pass every input connected to an output of a module of the
\* sequence holds the value of that output
Propagated(seq) ==
    \A k \in 1..Len(seq) : \A j \in 1..Len(Module_outputs(seq[k])) :
        LET ox == Module_outputs(seq[k])[j]
        IN \A e \in 1..Len(to_inputs[ox]) : in_val'[to_inputs[ox][e]] = out_val'[ox]

\* on the chain A -> B -> C of identity modules fed with one value at A's
\* input, C's output holds that value
ChainCarriesValue(input_to_val) ==
    (Len(input_to_val) = 1 /\ input_to_val[1].ix \in Nodes) =>
        \A B \in Nodes, C \in Nodes :
            IsChain(input_to_val[1].ix, B, C) => out_val'[C] = input_to_val[1].val

\* an input that is connected to an output of a module of the sequence
FedBy(seq, ix) ==
    /\ from_output[ix] # None
    /\ Output_get_module[from_output[ix]] \in Elements(seq)

\* C13 as stated: after forward(input_values) completes on a fully wired
\* graph every given seed input holds its given value, every input connected
\* to an output of a module of the evaluation sequence holds that output's
\* value, and the chain A -> B -> C fed with 5 leaves 5 at C's output.
C13_SeedsKeepGivenValues ==
    [][(last'.op = "forward" /\ last'.ok /\ FullyWired(last'.a)) =>
        /\ \A k \in 1..Len(last'.a) : in_val'[last'.a[k].ix] = last'.a[k].val
        /\ Propagated(last'.b)
        /\ ChainCarriesValue(last'.a)]_vars

\* C13, amended: after forward(input_values) completes, every given seed
\* input that is not connected to an output of a module of the evaluation
\* sequence holds its given value (a seed that is so connected holds that
\* output's value instead), every input connected to an output of a module of
\* the sequence holds that output's value, and the chain A -> B -> C fed with
\* 5 leaves 5 at C's output.
C13_ForwardPropagatesValues ==
    [][(last'.op = "forward" /\ last'.ok) =>
        /\ \A k \in 1..Len(last'.a) :
            IF FedBy(last'.b, last'.a[k].ix)
            THEN in_val'[last'.a[k].ix] = out_val'[from_output[last'.a[k].ix]]
            ELSE in_val'[last'.a[k].ix] = last'.a[k].val
        /\ Propagated(last'.b)
        /\ ChainCarriesValue(last'.a)]_vars

\* a pass with two seeds on a fully wired graph: the first keeps its value,
\* the second is fed by a module of the sequence and holds that module's
\* output, not the value it was given
C13_Witness ==
    /\ last.op = "forward" /\ last.ok
    /\ FullyWired(last.a)
    /\ Len(last.a) = 2
    /\ in_val[last.a[1].ix] = last.a[1].val
    /\ FedBy(last.b, last.a[2].ix)
    /\ in_val[last.a[2].ix] # last.a[2].val
    /\ in_val[last.a[2].ix] = out_val[from_output[last.a[2].ix]]

\* --- traversals (SpecTraverse)

\* C14: traverse_backward(outputs, visit_fn) and traverse_forward(inputs,
\* visit_fn) apply visit_fn to each module at most once, on every graph and
\* for every list of start ports.
C14_EachModuleVisitedAtMostOnce ==
    [][last'.op \in {"traverse_backward", "traverse_forward"} =>
        \A m \in Nodes : Count(last'.b, m) <= 1]_vars

\* --- reachability of hyperparameters (SpecSpecified, SpecUnset)

\* the modules one connection upstream of the modules in R
Upstream(R) ==
    {Output_get_module[from_output[i]] :
        i \in {j \in DOMAIN from_output : Input_get_module[j] \in R /\ from_output[j] # None}}

\* the modules reachable from R by at most n connections walked backward
RECURSIVE BackwardClosure(_, _)
BackwardClosure(R, n) == IF n = 0 THEN R ELSE BackwardClosure(R \cup Upstream(R), n - 1)

\* the modules owning the outputs and every module upstream of them
BackwardReachable(output_lst) ==
    BackwardClosure({Output_get_module[o] : o \in Elements(output_lst)}, NumNodes)

\* the unset hyperparameters module m declares, in the order of declaration
UnsetOf(m) ==
    LET unset == SelectSeq(hyperps[m], LAMBDA d : ~set_done[d.h])
    IN [k \in 1..Len(unset) |-> unset[k].h]

\* C18: is_specified(outputs) returns true exactly when no module backward
\* reachable from the modules owning the outputs (these included) declares an
\* unset hyperparameter; the call changes no graph state; unset hyperparameters
\* of modules that are not backward reachable do not count.
C18_SpecifiedIffReachableAllSet ==
    [][last'.op = "is_specified" =>
        /\ last'.b <=> \A m \in BackwardReachable(last'.a) : UnsetOf(m) = <<>>
        /\ UNCHANGED <<from_output, to_inputs, set_done, val, modules, hyperps,
                       is_compiled, in_val, out_val>>]_vars

\* a call that returned true for an output with an upstream module while a
\* module that is not backward reachable declares an unset hyperparameter
C18_Witness ==
    /\ last.op = "is_specified" /\ last.b
    /\ Cardinality(BackwardReachable(last.a)) >= 2
    /\ \E m \in Nodes \ BackwardReachable(last.a) : UnsetOf(m) # <<>>

\* seen, followed by the elements of s that are not in seen, each at its first
\* occurrence
RECURSIVE FirstOccurrencesAfter(_, _)
FirstOccurrencesAfter(seen, s) ==
    IF s = <<>> THEN seen
    ELSE FirstOccurrencesAfter(IF Contains(seen, Head(s)) THEN seen ELSE Append(seen, Head(s)),
                               Tail(s))

\* a list without the later occurrences of its elements
FirstOccurrences(s) == FirstOccurrencesAfter(<<>>, s)

\* the unset hyperparameters of the modules of a list, module after module
RECURSIVE UnsetAlong(_)
UnsetAlong(ms) == IF ms = <<>> THEN <<>> ELSE UnsetOf(Head(ms)) \o UnsetAlong(Tail(ms))

\* C19: when is_specified(outputs) is false, get_unset_hyperparameters(outputs)
\* returns exactly the unset hyperparameters declared by the modules backward
\* reachable from the outputs, each once even when several modules share it,
\* in the order in which the backward traversal first meets them; when
\* is_specified(outputs) is true the call fails.
C19_UnsetOfReachableInDiscoveryOrder ==
    [][last'.op = "get_unset_hyperparameters" =>
        IF is_specified(GraphState, last'.a)
        THEN ~last'.ok
        ELSE /\ last'.ok
             /\ Elements(last'.b) = UNION {Elements(UnsetOf(m)) : m \in BackwardReachable(last'.a)}
             /\ \A h \in Hyps : Count(last'.b, h) <= 1
             /\ \E visited \in {traverse_backward(GraphState, last'.a,
                                                   [name |-> "stop_at", stop |-> None]).visited} :
                    \E unset \in {UnsetAlong(visited)} : last'.b = FirstOccurrences(unset)]_vars

\* a call that returned two hyperparameters, one of them declared by two of
\* the backward reachable modules
C19_Witness ==
    /\ last.op = "get_unset_hyperparameters" /\ last.ok
    /\ Len(last.b) = 2
    /\ \E m \in BackwardReachable(last.a), n \in BackwardReachable(last.a) :
        /\ m # n
        /\ Elements(UnsetOf(m)) \cap Elements(UnsetOf(n)) # {}

\* --- registration of ports and roles (SpecRegister)

\* a list in which some element comes twice
HasDuplicate(l) == \E j \in 1..Len(l), k \in 1..Len(l) : j # k /\ l[j] = l[k]

\* the names of the entries of a module's dict
NamesOf(d) == [k \in 1..Len(d) |-> d[k].name]

\* a name of the call is already registered on module m as a name of its kind,
\* or the call hands the same port name twice
Collides(m, a) ==
    \/ \E k \in 1..Len(a.input_names) : HasRole(inputs[m], a.input_names[k])
    \/ HasDuplicate(a.input_names)
    \/ \E k \in 1..Len(a.output_names) : HasRole(outputs[m], a.output_names[k])
    \/ HasDuplicate(a.output_names)
    \/ \E k \in 1..Len(a.name_to_hyperp) : HasRole(hyperps[m], a.name_to_hyperp[k].name)

\* C21: a _register call in which an input name, an output name or a role name
\* collides with a name of the same kind already registered on the module
\* fails; and whatever the call does, every port and role registered before
\* stays in place: the entries of every module's inputs, outputs and
\* hyperparameters keep their position, object and binding, names stay unique
\* in each of them, the existing ports keep their connections and every name
\* of the scope keeps its object.
C21_CollidingRegisterFails ==
    [][last'.op = "_register" =>
        /\ Collides(last'.a.m, last'.a.args) => ~last'.ok
        /\ \A n \in ModuleIds :
            /\ IsPrefix(inputs[n], inputs'[n])
            /\ IsPrefix(outputs[n], outputs'[n])
            /\ IsPrefix(hyperps[n], hyperps'[n])
            /\ ~HasDuplicate(NamesOf(inputs'[n]))
            /\ ~HasDuplicate(NamesOf(outputs'[n]))
            /\ ~HasDuplicate(NamesOf(hyperps'[n]))
        /\ \A ix \in DOMAIN from_output : from_output'[ix] = from_output[ix]
        /\ \A ox \in DOMAIN to_inputs : to_inputs'[ox] = to_inputs[ox]
        /\ \A name \in DOMAIN name_to_elem : name_to_elem'[name] = name_to_elem[name]]_vars

\* a call that failed on a role name the module had bound to another
\* hyperparameter in an earlier call: the binding is the earlier one and the
\* hyperparameter of the failed call has no dependent
C21_Witness ==
    /\ last.op = "_register" /\ ~last.ok
    /\ \E k \in 1..Len(last.a.args.name_to_hyperp) : \E e \in 1..Len(hyperps[last.a.m]) :
        /\ hyperps[last.a.m][e].name = last.a.args.name_to_hyperp[k].name
        /\ hyperps[last.a.m][e].h # last.a.args.name_to_hyperp[k].h
        /\ modules[last.a.args.name_to_hyperp[k].h] = <<>>

\* --- completeness and termination of the evaluation order (SpecEval)

\* the modules one connection downstream of the modules in R
Downstream(R) ==
    {Input_get_module[i] : i \in {j \in DOMAIN from_output :
                                    from_output[j] # None /\ Output_get_module[from_output[j]] \in R}}

\* the modules reachable from R by at most n connections walked forward
RECURSIVE ForwardClosure(_, _)
ForwardClosure(R, n) == IF n = 0 THEN R ELSE ForwardClosure(R \cup Downstream(R), n - 1)

\* the modules owning the inputs and every module downstream of them
ForwardReachable(input_lst) ==
    ForwardClosure({Input_get_module[i] : i \in Elements(input_lst)}, NumNodes)

\* no module of R is downstream of itself
Acyclic(R) == \A m \in R : m \notin ForwardClosure(Downstream({m}), NumNodes)

\* every declared input of every module of R is a seed or is connected to an
\* output of a module of R
Driven(R, input_lst) ==
    \A i \in DOMAIN from_output :
        Input_get_module[i] \in R =>
            \/ i \in Elements(input_lst)
            \/ from_output[i] # None /\ Output_get_module[from_output[i]] \in R

\* C22: when the graph forward reachable from the seed inputs is acyclic and
\* every declared input of every forward-reachable module is a seed or is
\* connected to an output of a forward-reachable module, the sequence
\* determine_module_eval_seq returns contains every forward-reachable module,
\* for every order of the seed list and every order of the outputs' lists of
\* connected inputs.
C22_EvalSeqCoversReachable ==
    [][last'.op = "determine_module_eval_seq" =>
        \E R \in {ForwardReachable(last'.a)} :
            (Acyclic(R) /\ Driven(R, last'.a)) => R \subseteq Elements(last'.b)]_vars

\* two seeds handed over in descending order, whose modules feed the two
\* inputs of a third module: all three modules are in the sequence
C22_Witness ==
    /\ last.op = "determine_module_eval_seq"
    /\ Len(last.a) = 2 /\ last.a[1] > last.a[2]
    /\ Acyclic(ForwardReachable(last.a)) /\ Driven(ForwardReachable(last.a), last.a)
    /\ Cardinality(ForwardReachable(last.a)) = 3
    /\ \E m \in Nodes :
        /\ Len(Module_inputs(GraphState, m)) = 2
        /\ \A j \in 1..2 : from_output[Module_inputs(GraphState, m)[j]] # None
        /\ from_output[Module_inputs(GraphState, m)[1]] # from_output[Module_inputs(GraphState, m)[2]]
    /\ Elements(last.b) = ForwardReachable(last.a)

\* the number of inputs connected to the outputs of the modules of a list
RECURSIVE FanOut(_)
FanOut(seq) ==
    IF seq = <<>> THEN 0
    ELSE Cardinality({i \in DOMAIN from_output :
                        from_output[i] # None /\ Output_get_module[from_output[i]] = Head(seq)})
         + FanOut(Tail(seq))

\* C23: on every graph, cyclic ones and modules reached through several
\* connections included, determine_module_eval_seq ends, lists no module twice,
\* and its frontier stops growing: when the loop has ended the frontier holds
\* the modules of the seed inputs and, for each module of the sequence, one
\* entry per input connected to its outputs, and nothing else.
C23_EvalSeqListsEachModuleOnce ==
    [][last'.op = "determine_module_eval_seq" =>
        /\ \A m \in Nodes : Count(last'.b, m) <= 1
        /\ \E e \in {eval_seq_locals(GraphState, last'.a)} :
            /\ e.module_seq = last'.b
            /\ Len(e.ms) = Cardinality({Input_get_module[i] : i \in Elements(last'.a)})
                           + FanOut(last'.b)
            /\ Len(e.ms) <= NumNodes + NumEdges]_vars

\* a call on a cycle of two modules: both are listed once and the first one
\* stands twice in the frontier
C23_Witness ==
    /\ last.op = "determine_module_eval_seq"
    /\ Len(last.a) = 1
    /\ ~Acyclic(ForwardReachable(last.a))
    /\ Len(last.b) = 2
    /\ Count(eval_seq_locals(GraphState, last.a).ms, last.b[1]) = 2

\* the connections of a module's outputs, in the order forward copies them
RECURSIVE CopiesOf(_, _)
CopiesOf(oxs, j) ==
    IF j > Len(oxs) THEN <<>>
    ELSE [k \in 1..Len(to_inputs[oxs[j]]) |-> [ox |-> oxs[j], ix |-> to_inputs[oxs[j]][k]]]
         \o CopiesOf(oxs, j + 1)

\* the positions of the entries e of a trace
At(T, e) == {p \in 1..Len(T) : T[p].e = e}

\* the trace is made of one block per module: forward, returned, its copies
OneAtATime(T, ok) ==
    /\ T # <<>> => T[1].e = "forward"
    /\ \A p \in At(T, "forward") :
        IF p = Len(T) THEN ~ok
        ELSE T[p + 1].e = "returned" /\ T[p + 1].m = T[p].m
    /\ ~ok => T # <<>> /\ T[Len(T)].e = "forward"
    /\ \A p \in At(T, "returned") :
        \E C \in {CopiesOf(Module_outputs(T[p].m), 1)} :
            /\ p + Len(C) <= Len(T)
            /\ \A j \in 1..Len(C) :
                /\ T[p + j].e = "copy"
                /\ T[p + j].ox = C[j].ox
                /\ T[p + j].ix = C[j].ix
                /\ T[p + j].in_val[C[j].ix] = T[p].out_val[C[j].ox]
            /\ p + Len(C) < Len(T) => T[p + Len(C) + 1].e = "forward"

\* the modules whose forward() was entered, in order
RECURSIVE Entered(_)
Entered(T) ==
    IF T = <<>> THEN <<>>
    ELSE (IF Head(T).e = "forward" THEN <<Head(T).m>> ELSE <<>>) \o Entered(Tail(T))

\* C24: during forward(input_to_val, _module_seq) the modules' forward() are
\* entered in the order of the sequence, one at a time (up to the module that
\* raises, if one does); the values of a module's outputs are copied to the
\* connected inputs after its forward() has returned and before the next
\* module is entered; so when a module is entered, each of its inputs fed by a
\* module that ran earlier in the pass holds that module's current output value.
C24_ForwardRunsInSequence ==
    [][last'.op = "KerasRandomModel.forward" =>
        /\ IsPrefix(Entered(trace'), last'.b)
        /\ last'.ok => Entered(trace') = last'.b
        /\ OneAtATime(trace', last'.ok)
        /\ \A p \in At(trace', "forward") :
            \A j \in 1..Len(inputs[trace'[p].m]) :
                \E ix \in {inputs[trace'[p].m][j]} :
                    (/\ from_output[ix] # None
                     /\ \E q \in 1..(p - 1) :
                            /\ trace'[q].e = "returned"
                            /\ trace'[q].m = Output_get_module[from_output[ix]])
                    => trace'[p].in_val[ix] = trace'[p].out_val[from_output[ix]]]_vars

\* a pass over three modules, the last one entered with two inputs that hold
\* what the two earlier modules computed
C24_Witness ==
    /\ last.op = "KerasRandomModel.forward"
    /\ last.ok
    /\ Len(last.b) = 3
    /\ Cardinality(At(trace, "copy")) >= 2
    /\ \E p \in At(trace, "forward") :
        /\ Len(inputs[trace[p].m]) = 2
        /\ \A j \in 1..2 : \E ix \in {inputs[trace[p].m][j]} :
            /\ from_output[ix] # None
            /\ Output_get_module[from_output[ix]] # trace[p].m
            /\ trace[p].in_val[ix] = trace[p].out_val[from_output[ix]]
        /\ from_output[inputs[trace[p].m][1]] # from_output[inputs[trace[p].m][2]]

\* the modules a traversal can get to from its start ports
Reachable(call) ==
    IF call.op = "traverse_backward" THEN BackwardReachable(call.a.lst)
    ELSE ForwardReachable(call.a.lst)

\* C25: in traverse_backward and traverse_forward the function is applied to no
\* module after the call in which it returned true (the module it returned
\* true at is the last one visited), only reachable modules are visited, and
\* when the function never returned true every module reachable from the start
\* ports in the direction of the traversal was visited.
C25_TraversalStopsAtTrue ==
    [][last'.op \in {"traverse_backward", "traverse_forward"} =>
        /\ \A k \in 1..Len(last'.b) : last'.b[k] = last'.a.visit_fn.stop => k = Len(last'.b)
        /\ Elements(last'.b) \subseteq Reachable(last')
        /\ last'.a.visit_fn.stop \notin Elements(last'.b) =>
                Elements(last'.b) = Reachable(last')]_vars

\* a backward traversal from one output that was stopped at its second module
\* and so left a reachable module unvisited
C25_Witness ==
    /\ last.op = "traverse_backward"
    /\ Len(last.a.lst) = 1
    /\ Len(last.b) = 2
    /\ last.b[2] = last.a.visit_fn.stop
    /\ Cardinality(BackwardReachable(last.a.lst)) = 3

\* C26: get_unconnected_inputs(outputs) lists each unconnected input of the
\* modules backward reachable from the outputs exactly once and nothing else,
\* and get_unconnected_outputs(inputs) lists each unconnected output of the
\* modules forward reachable from the inputs exactly once and nothing else.
C26_UnconnectedPortsListedOnce ==
    [][/\ last'.op = "get_unconnected_inputs" =>
            \A i \in DOMAIN from_output :
                Count(last'.b, i) =
                    IF from_output[i] = None /\ Input_get_module[i] \in BackwardReachable(last'.a)
                    THEN 1 ELSE 0
       /\ last'.op = "get_unconnected_outputs" =>
            \A o \in GraphOutputs :
                Count(last'.b, o) =
                    IF to_inputs[o] = <<>> /\ Output_get_module[o] \in ForwardReachable(last'.a)
                    THEN 1 ELSE 0]_vars

\* C27: when input I is connected to output O and input J, different from I,
\* is unconnected, reroute_connected_output(I, J) succeeds and leaves I
\* unconnected and J connected to O, J at the end of O's list of connected
\* inputs, the other elements of that list in their order, and every other
\* port as it was.
C27_RerouteConnectedOutputMovesToEnd ==
    [][(/\ last'.op = "reroute_connected_output"
        /\ last'.a # last'.b
        /\ from_output[last'.a] # None
        /\ from_output[last'.b] = None) =>
        /\ last'.ok
        /\ from_output' = [i \in DOMAIN from_output |->
                            IF i = last'.a THEN None
                            ELSE IF i = last'.b THEN from_output[last'.a]
                            ELSE from_output[i]]
        /\ to_inputs' = [o \in DOMAIN to_inputs |->
                            IF o = from_output[last'.a]
                            THEN Append(SelectSeq(to_inputs[o], LAMBDA x : x # last'.a), last'.b)
                            ELSE to_inputs[o]]]_vars

\* a reroute that moved the first of the inputs of an output: the other input
\* is now first and the new input last
C27_Witness ==
    /\ last.op = "reroute_connected_output" /\ last.ok
    /\ last.a # last.b
    /\ from_output[last.a] = None
    /\ from_output[last.b] # None
    /\ Len(to_inputs[from_output[last.b]]) = 2
    /\ to_inputs[from_output[last.b]][2] = last.b
    /\ to_inputs[from_output[last.b]][1] > last.a

\* C28 (as stated): once a hyperparameter is set and its dependents were
\* notified, no operation changes its list of dependents.
C28_DependentsFrozenOnceSet ==
    [][\A h \in Hyps : set_done[h] => modules'[h] = modules[h]]_vars

\* module m has just declared h under a role it did not have
Declared(m, h) ==
    /\ last'.op = "register_hyperparameter" /\ last'.ok
    /\ \E name \in RoleNames : hyperps'[m] = Append(hyperps[m], [name |-> name, h |-> h])

\* C28 (amended): once a hyperparameter H is set and its dependents were
\* notified, H's list of dependents changes only when a module that does not
\* depend on H yet declares H: that module is appended at the end of the list,
\* and it is not notified (H stays set with its value and no _update runs).
\* No other operation, set_val on any hyperparameter and a second declaration
\* by a dependent included, changes the list, and nothing is ever removed.
C28_DependentsGrowOnlyByRegistration ==
    [][\A h \in Hyps : set_done[h] =>
        /\ \A m \in ModuleIds : Declared(m, h) =>
            /\ modules'[h] = IF Contains(modules[h], m) THEN modules[h]
                             ELSE Append(modules[h], m)
            /\ set_done' = set_done /\ val' = val /\ trace' = <<>>
        /\ modules'[h] # modules[h] => \E m \in ModuleIds : Declared(m, h)]_vars

\* a hyperparameter that was set when one module depended on it, and that a
\* second module has declared since: it has two dependents
C28_Witness ==
    /\ last.op = "register_hyperparameter" /\ last.ok
    /\ \E h \in Hyps :
        /\ set_done[h]
        /\ Len(modules[h]) = 2
        /\ NumRegs = 2
        /\ \A m \in ModuleIds : Len(hyperps[m]) = 1 /\ hyperps[m][1].h = h

\* C29: in every reachable state the registry is a bijection: for every
\* registered name n, get_name(get_elem(n)) = n, and for every registered
\* entity e, get_elem(get_name(e)) = e.
C29_RegistryIsBijection ==
    /\ \A n \in DOMAIN name_to_elem :
        /\ name_to_elem[n] \in DOMAIN elem_to_name
        /\ elem_to_name[name_to_elem[n]] = n
    /\ \A e \in DOMAIN elem_to_name :
        /\ elem_to_name[e] \in DOMAIN name_to_elem
        /\ name_to_elem[elem_to_name[e]] = e

\* the unset hyperparameters declared by the modules backward reachable from
\* the outputs
UnsetReachable(output_lst) ==
    UNION {Elements(UnsetOf(m)) : m \in BackwardReachable(output_lst)}

\* the search loop has just made an iteration
Iterated == last.op = "search" /\ last'.op = "search"

\* the hyperparameters set during the step
NewlySetNow == {h \in Hyps : ~set_done[h] /\ set_done'[h]}

\* what the record of the search loop counts: the unset reachable
\* hyperparameters; and the loop can go on exactly while there is one
SearchCounts ==
    last.op = "search" =>
        /\ last.ok
        /\ last.b.unset = Cardinality(UnsetReachable(last.a))
        /\ is_specified(GraphState, last.a) <=> last.b.unset = 0
        /\ ~is_specified(GraphState, last.a) =>
            \E unset \in {get_unset_hyperparameters(GraphState, last.a)} :
                /\ unset.ok /\ unset.ret # <<>>
                /\ \A k \in 1..Len(unset.ret) :
                    Hyperparameter_set_val(GraphState, unset.ret[k], FirstVal).ok

C31_DisconnectAllLeavesNothingConnected ==
    [][last'.op = "disconnect_all" =>
        /\ to_inputs'[last'.a] = <<>>
        /\ \A k \in 1..Len(to_inputs[last'.a]) :
               from_output'[to_inputs[last'.a][k]] = None]_vars

\* --- evaluation logger (SpecLogging)

\* the standard log files that are in evaluation folder id
Written(id) == {name \in LogNames : disk.files[id][name] # None}

LogOps == {"log_config", "log_features", "log_results"}

\* the file a log method writes
FileOf(op) ==
    IF op = "log_config" THEN "config"
    ELSE IF op = "log_features" THEN "features"
    ELSE "results"

\* C32: in one evaluation folder each of log_config, log_features and
\* log_results succeeds only while its file is not there and leaves the file
\* written, so that a second call fails, and it fails without touching the
\* file; log_results succeeds only when config.json and features.json are
\* there; in every reachable state a folder with results.json has config.json
\* and features.json.
C32_WriteOnceInOrder ==
    /\ [][last'.op \in LogOps =>
            /\ last'.ok =>
                  /\ FileOf(last'.op) \notin Written(last'.a)
                  /\ disk' = [disk EXCEPT !.files[last'.a][FileOf(last'.op)] = last'.b]
            /\ FileOf(last'.op) \in Written(last'.a) => ~last'.ok /\ disk' = disk
            /\ (last'.op = "log_results" /\ last'.ok) =>
                  {"config", "features"} \subseteq Written(last'.a)]_vars
    /\ [](\A id \in EvalIds :
            "results" \in Written(id) => Written(id) = LogNames)

\* a second log_results that failed on a folder whose three files were written
\* by calls that succeeded
C32_Witness ==
    /\ last.op = "log_results" /\ ~last.ok
    /\ \A name \in LogNames : disk.files[last.a][name] \in LogVals
    /\ disk.files[last.a]["results"] # last.b

====
